---- MODULE Spec2Model ----
(***************************************************************************)
(* Model of plugin-credit-builder: the dispute lifecycle tracker           *)
(* (CreditProfileService), the mail dispatch gateway (LobMailService) and  *)
(* the SEND_DISPUTE action handler.                                        *)
(*                                                                         *)
(* Representation of JavaScript values:                                    *)
(*   - a free-text string (creditor name, target, message body) is a       *)
(*     sequence of characters; a bureau name is a one-element sequence;    *)
(*     the empty string and an absent text are both <<>> (both falsy);     *)
(*   - an instant (Date) is [valid, day, ms]: ms-resolution epoch time     *)
(*     split into whole days and the millisecond within the day (a TLC     *)
(*     integer cannot hold 30 days in milliseconds); valid = FALSE is the  *)
(*     Invalid Date (NaN time value);                                      *)
(*   - a date string is [kind, day, ms] where kind = "iso" is the output   *)
(*     of toISOString and any other kind does not parse;                   *)
(*   - a message text is the sequence of its comma-separated parts, each   *)
(*     a sequence of tokens: single characters, or a whole keyword of the  *)
(*     handler (a keyword occurs in a text iff it is one of its tokens).   *)
(* DisputeRecord fields letter_name, recipient_name, tracking_number,      *)
(* cost, outcome and notes are copied through exactly like lob_letter_id   *)
(* and are not represented.                                                *)
(***************************************************************************)
EXTENDS Integers, Sequences, FiniteSets, TLC

\* ------------------------------------------------------------------------
\* Bounds of the model
\* ------------------------------------------------------------------------

\* largest day number the clock reaches
MaxDay == 35

\* largest millisecond-of-day the clock reaches
MaxMs == 1

\* longest creditor name passed to normalizeCreditorName directly
MaxLen == 3

\* longest negative_items list of the audited profiles
MaxItems == 2

\* largest number of records written by direct addDispute calls
MaxMem == 2

\* ------------------------------------------------------------------------
\* Strings
\* ------------------------------------------------------------------------

EmptyString == <<>>

\* String.prototype.toLowerCase on one character of the model alphabet
LowerChar(c) ==
  CASE c = "A" -> "a"
    [] c = "B" -> "b"
    [] OTHER -> c

toLowerCase(s) == [i \in 1..Len(s) |-> LowerChar(s[i])]

\* the character class [a-z0-9] of the normalisation regex
IsAlnumLower(c) == c \notin {" ", "-", "!", ",", "A", "B"}

\* String.prototype.includes: t occurs in s as a contiguous substring
StrIncludes(s, t) ==
  \E i \in 0..(Len(s) - Len(t)) : SubSeq(s, i + 1, i + Len(t)) = t

\* a replacement of each other character by its own '-', without the + of
\* the regex
ReplaceRuns_EachChar(s) ==
  [i \in 1..Len(s) |-> IF IsAlnumLower(s[i]) THEN s[i] ELSE "-"]

\* .replace(/[^a-z0-9]+/g, '-'): every maximal run of other characters
\* becomes one '-'
RECURSIVE ReplaceRuns(_)
ReplaceRuns(s) ==
  IF s = <<>> THEN <<>>
  ELSE IF IsAlnumLower(Head(s)) THEN <<Head(s)>> \o ReplaceRuns(Tail(s))
  ELSE IF Len(s) > 1 /\ ~IsAlnumLower(s[2]) THEN ReplaceRuns(Tail(s))
  ELSE <<"-">> \o ReplaceRuns(Tail(s))

\* .replace(/^-|-$/g, ''): one leading and one trailing '-' are removed
StripEnds(s) ==
  LET a == IF s # <<>> /\ Head(s) = "-" THEN Tail(s) ELSE s
  IN  IF a # <<>> /\ a[Len(a)] = "-" THEN SubSeq(a, 1, Len(a) - 1) ELSE a

normalizeCreditorName(name) == StripEnds(ReplaceRuns(toLowerCase(name)))

\* ------------------------------------------------------------------------
\* Dates
\* ------------------------------------------------------------------------

InvalidDate == [valid |-> FALSE, day |-> 0, ms |-> 0]

Instant(d, m) == [valid |-> TRUE, day |-> d, ms |-> m]

\* Date.prototype.toISOString of a valid date
toISOString(t) == [kind |-> "iso", day |-> t.day, ms |-> t.ms]

\* the response_deadline of a record written without one
NoDateString == [kind |-> "undefined", day |-> 0, ms |-> 0]

\* new Date(string): an ISO string parses to its instant, anything else
\* (undefined, garbage) to the Invalid Date
ParseDate(s) == IF s.kind = "iso" THEN Instant(s.day, s.ms) ELSE InvalidDate

\* a deadline computed on calendar days, dropping the time of day
PlusDays_DateOnly(t, n) == [valid |-> TRUE, day |-> t.day + n, ms |-> 0]

\* new Date(t.getTime() + n * 24 * 60 * 60 * 1000)
PlusDays(t, n) == Instant(t.day + n, t.ms)

\* a > b on Dates: numeric comparison of time values, false when either is NaN
DateGt(a, b) ==
  /\ a.valid /\ b.valid
  /\ (a.day > b.day \/ (a.day = b.day /\ a.ms > b.ms))

\* a <= b on Dates
DateLe(a, b) ==
  /\ a.valid /\ b.valid
  /\ (a.day < b.day \/ (a.day = b.day /\ a.ms <= b.ms))

RESPONSE_DAYS == 30

ESCALATION_DAYS == 35

\* ------------------------------------------------------------------------
\* Domain constants
\* ------------------------------------------------------------------------

Users == {"u1", "u2"}

\* BUREAU_NAMES, and the iteration order of sendToAllBureaus
BUREAU_NAMES == <<"equifax", "experian", "transunion">>

Bureaus == {BUREAU_NAMES[i] : i \in 1..Len(BUREAU_NAMES)}

\* a bureau as the target string of a record
BureauText(b) == <<b>>

\* BUREAU_ADDRESSES[b]: the fixed postal address of a bureau
BUREAU_ADDRESSES(b) ==
  [name |-> <<b, "addr">>, address_line1 |-> <<"po box">>, city |-> <<b, "city">>]

\* LETTER_TYPE_INFO[t].target_type
TargetType(t) ==
  CASE t \in {"basic_bureau", "609_verification", "611_reinvestigation",
              "method_of_verification", "identity_theft",
              "unauthorized_inquiry"} -> "bureau"
    [] t \in {"debt_validation", "cease_desist", "pay_for_delete",
              "hipaa_medical", "statute_of_limitations"} -> "collector"
    [] t \in {"goodwill", "direct_creditor", "chargeoff_removal",
              "arbitration_election", "billing_error"} -> "creditor"
    [] OTHER -> "any"

Statuses ==
  {"draft", "sent", "delivered", "response_received", "resolved",
   "escalated", "overdue"}

\* creditor names used by the profiles and addresses of the model
NameA == <<"A", " ", "b">>

NameAVariant == <<"a", "-", "B", "!">>

NameB == <<"b", "1">>

Item(ty, name, disp) ==
  [type |-> ty, creditor_name |-> name, disputable |-> disp, dispute_reason |-> <<>>]

NoProfile == [present |-> FALSE, negative_items |-> <<>>]

\* an optional field that is not set (undefined); a set number n is <<n>>,
\* a set utilization_percent or on_time_payment_percent is the fraction
\* <<numerator, denominator>> with a positive denominator, a set
\* account_types list is <<list>>
Absent == <<>>

\* a profile with the given negative items and no other optional field set
Profile(items) ==
  [ present                    |-> TRUE,
    negative_items             |-> items,
    current_score              |-> Absent,
    total_accounts             |-> Absent,
    average_account_age_months |-> Absent,
    total_credit_limit         |-> Absent,
    total_balance              |-> Absent,
    utilization_percent        |-> Absent,
    on_time_payment_percent    |-> Absent,
    hard_inquiries_last_12mo   |-> Absent,
    account_types              |-> Absent ]

\* profiles a caller may save
ProfileChoices ==
  { Profile(<<>>),
    Profile(<<Item("chargeoff", NameB, "false"), Item("collection", NameA, "true")>>) }

Address(cname, name, line, city) ==
  [creditor_name |-> cname, name |-> name, address_line1 |-> line, city |-> city]

\* addresses a caller may save directly
AddressChoices == { Address(NameAVariant, NameAVariant, <<"b">>, <<"a">>) }

\* ------------------------------------------------------------------------
\* State
\* ------------------------------------------------------------------------

VARIABLES
  now,          \* the wall clock read by new Date()
  profiles,     \* runtime cache, keys CACHE_PREFIX + userId
  addresses,    \* runtime cache, keys CREDITOR_ADDR_PREFIX + userId + ':' + normalized name
  memories,     \* the credit_disputes memory table, in insertion order
  lobCount,     \* letters the carrier has accepted so far
  inflight,     \* carrier calls of the running handler that have not returned
  calls,        \* carrier calls made by the current or last handler invocation
  h,            \* local variables of the SEND_DISPUTE handler invocation
  result,       \* ActionResult of the last finished handler invocation
  ret,          \* the last direct call of a service function: [op, arg, value]
  report,       \* local variables of the dispute report being built or last built
  updating      \* updateProfile calls that have read the profile, until their callers resume

vars ==
  << now, profiles, addresses, memories, lobCount, inflight, calls, h, result, ret,
     report, updating >>

\* ------------------------------------------------------------------------
\* Runtime cache (a Map): absent keys are outside the domain
\* ------------------------------------------------------------------------

\* cache.set(key, value)
MapSet(m, k, v) == [x \in DOMAIN m \cup {k} |-> IF x = k THEN v ELSE m[x]]

NoAddress == [creditor_name |-> <<>>, name |-> <<>>, address_line1 |-> <<>>, city |-> <<>>]

\* getProfile: the cached profile, undefined (NoProfile) when the key is absent
getProfile(cache, u) == IF u \in DOMAIN cache THEN cache[u] ELSE NoProfile

\* the cache key of saveCreditorAddress / getCreditorAddress
AddrKey(u, name) == <<u, normalizeCreditorName(name)>>

\* getCreditorAddress looking the raw name up without normalising it
getCreditorAddress_RawKey(cache, u, name) ==
  IF <<u, name>> \in DOMAIN cache THEN cache[<<u, name>>] ELSE NoAddress

\* getCreditorAddress: undefined (NoAddress) when the key is absent
getCreditorAddress(cache, u, name) ==
  IF AddrKey(u, name) \in DOMAIN cache THEN cache[AddrKey(u, name)] ELSE NoAddress

\* saveCreditorAddress
\* saveCreditorAddress refusing to overwrite an address already stored
saveCreditorAddress_KeepFirst(cache, u, a) ==
  IF AddrKey(u, a.creditor_name) \in DOMAIN cache THEN cache
  ELSE MapSet(cache, AddrKey(u, a.creditor_name), a)

saveCreditorAddress(cache, u, a) == MapSet(cache, AddrKey(u, a.creditor_name), a)

\* ------------------------------------------------------------------------
\* Credit audit
\* ------------------------------------------------------------------------

\* x || 0 on an optional number
OrZero(x) == IF x = Absent THEN 0 ELSE x[1]

\* a phase cascade comparing with > where the code has >=
ScorePhase_Exclusive(score) ==
  IF score > 740 THEN "elite"
  ELSE IF score > 670 THEN "optimization"
  ELSE IF score > 580 THEN "acceleration"
  ELSE "foundation"

\* the nested conditional of runAudit on the score
ScorePhase(score) ==
  IF score >= 740 THEN "elite"
  ELSE IF score >= 670 THEN "optimization"
  ELSE IF score >= 580 THEN "acceleration"
  ELSE "foundation"

\* an entry of strengths or weaknesses; n is the number interpolated into
\* the description: <<k>> for an integer (<<0>> when there is none), the
\* fraction itself for a payment percentage
AuditItem(factor, impact, weight, n) ==
  [factor |-> factor, impact |-> impact, score_weight_percent |-> weight, n |-> n]

\* the payment history block: <<strengths, weaknesses>> it pushes
PaymentSignal(profile) ==
  LET p == profile.on_time_payment_percent IN
  IF p = Absent THEN <<<<>>, <<>>>>
  ELSE IF p[1] >= 99 * p[2] THEN <<<<AuditItem("payment_history", "high", 35, <<0>>)>>, <<>>>>
  ELSE IF p[1] < 95 * p[2] THEN <<<<>>, <<AuditItem("payment_history", "high", 35, p)>>>>
  ELSE <<<<>>, <<>>>>

\* a fraction with a positive denominator
Fraction(num, den) ==
  IF den < 0 THEN [known |-> TRUE, num |-> 0 - num, den |-> 0 - den]
  ELSE [known |-> TRUE, num |-> num, den |-> den]

UnknownUtil == [known |-> FALSE, num |-> 0, den |-> 1]

\* an effective utilization that counts a missing or zero limit as 0%
EffectiveUtil_ZeroDefault(profile) ==
  IF profile.utilization_percent # Absent
  THEN Fraction(profile.utilization_percent[1], profile.utilization_percent[2])
  ELSE IF OrZero(profile.total_credit_limit) # 0
  THEN Fraction(OrZero(profile.total_balance) * 100, profile.total_credit_limit[1])
  ELSE Fraction(0, 1)

\* utilization_percent ?? (total_credit_limit ? (total_balance || 0) /
\* total_credit_limit * 100 : undefined), as an exact fraction
EffectiveUtil(profile) ==
  IF profile.utilization_percent # Absent
  THEN Fraction(profile.utilization_percent[1], profile.utilization_percent[2])
  ELSE IF OrZero(profile.total_credit_limit) # 0
  THEN Fraction(OrZero(profile.total_balance) * 100, profile.total_credit_limit[1])
  ELSE UnknownUtil

\* util <= k
UtilLe(util, k) == util.num <= k * util.den

\* util.toFixed(0): the nearest integer, a tie going away from zero
ToFixed0(util) ==
  IF util.num >= 0 THEN (2 * util.num + util.den) \div (2 * util.den)
  ELSE 0 - ((2 * (0 - util.num) + util.den) \div (2 * util.den))

\* a utilization cascade comparing with < where the code has <=
UtilStatus_Strict(util) ==
  IF ~util.known THEN "excellent"
  ELSE IF util.num < 9 * util.den THEN "excellent"
  ELSE IF util.num < 30 * util.den THEN "good"
  ELSE IF util.num < 50 * util.den THEN "fair"
  ELSE "critical"

\* the utilization cascade of runAudit
UtilStatus(util) ==
  IF ~util.known THEN "excellent"
  ELSE IF UtilLe(util, 9) THEN "excellent"
  ELSE IF UtilLe(util, 30) THEN "good"
  ELSE IF UtilLe(util, 50) THEN "fair"
  ELSE "critical"

\* the utilization block: <<strengths, weaknesses>> it pushes
UtilSignal(util) ==
  IF ~util.known THEN <<<<>>, <<>>>>
  ELSE IF UtilLe(util, 9) THEN <<<<AuditItem("utilization", "high", 30, <<ToFixed0(util)>>)>>, <<>>>>
  ELSE IF UtilLe(util, 30) THEN <<<<>>, <<>>>>
  ELSE <<<<>>, <<AuditItem("utilization", "high", 30, <<ToFixed0(util)>>)>>>>

\* (months / 12).toFixed(1), in tenths of a year
AgeTenths(months) == (2 * 10 * months + 12) \div (2 * 12)

\* the age block
AgeSignal(profile) ==
  LET a == profile.average_account_age_months IN
  IF a = Absent THEN <<<<>>, <<>>>>
  ELSE IF a[1] >= 84 THEN <<<<AuditItem("age", "medium", 15, <<AgeTenths(a[1])>>)>>, <<>>>>
  ELSE IF a[1] < 24 THEN <<<<>>, <<AuditItem("age", "medium", 15, <<0>>)>>>>
  ELSE <<<<>>, <<>>>>

\* account_types || []
AccountTypes(profile) ==
  IF profile.account_types = Absent THEN <<>> ELSE profile.account_types[1]

\* the missing_account_types list of the mix block
MissingTypes(types) ==
  (IF \E i \in DOMAIN types : types[i] = "revolving" THEN <<>> ELSE <<"revolving">>)
  \o
  (IF \E i \in DOMAIN types :
        types[i] \in {"installment", "auto", "student", "personal", "mortgage"}
   THEN <<>> ELSE <<"installment">>)

\* the mix block: types.length < 3
MixSignal(types) ==
  IF Len(types) < 3 THEN <<<<>>, <<AuditItem("mix", "low", 10, <<Len(types)>>)>>>>
  ELSE <<<<>>, <<>>>>

\* an inquiries block that already penalises three inquiries
InquirySignal_AtThree(profile) ==
  LET q == profile.hard_inquiries_last_12mo IN
  IF q # Absent /\ q[1] >= 3 THEN <<<<>>, <<AuditItem("inquiries", "low", 10, <<q[1]>>)>>>>
  ELSE <<<<>>, <<>>>>

\* the inquiries block
InquirySignal(profile) ==
  LET q == profile.hard_inquiries_last_12mo IN
  IF q # Absent /\ q[1] > 3 THEN <<<<>>, <<AuditItem("inquiries", "low", 10, <<q[1]>>)>>>>
  ELSE <<<<>>, <<>>>>

\* x || 0 on an optional percentage
OrZeroPct(x) == IF x = Absent THEN <<0, 1>> ELSE x

\* a payment_history_status that gives no verdict ('good') without a
\* percentage
PaymentStatus_AbsentGood(profile) ==
  LET p == OrZeroPct(profile.on_time_payment_percent) IN
  IF profile.on_time_payment_percent = Absent THEN "good"
  ELSE IF p[1] >= 99 * p[2] THEN "perfect"
  ELSE IF p[1] >= 95 * p[2] THEN "good"
  ELSE IF p[1] >= 85 * p[2] THEN "needs_work"
  ELSE "poor"

\* payment_history_status, on (on_time_payment_percent || 0)
PaymentStatus(profile) ==
  LET p == OrZeroPct(profile.on_time_payment_percent) IN
  IF p[1] >= 99 * p[2] THEN "perfect"
  ELSE IF p[1] >= 95 * p[2] THEN "good"
  ELSE IF p[1] >= 85 * p[2] THEN "needs_work"
  ELSE "poor"

\* the escalation array of assessDisputeCandidate
EscalationPath ==
  << "Basic Bureau Dispute", "609 Verification", "611 Reinvestigation",
     "CFPB Complaint", "Intent to Sue", "FCRA Attorney" >>

\* a priority score cut to one decimal place instead of rounded
PriorityScore_Truncated(gain, prob) == (gain * prob) \div 10

\* Math.round(gain * probability * 10) / 10, in tenths, for a probability
\* in hundredths: a tie goes up
PriorityScore(gain, prob) == (gain * prob + 5) \div 10

\* the value assessDisputeCandidate returns: probabilities in hundredths,
\* priority_score in tenths
Candidate(item, letter, gain, prob) ==
  [ item |-> item, recommended_letter_type |-> letter, estimated_score_gain |-> gain,
    success_probability |-> prob, priority_score |-> PriorityScore(gain, prob),
    escalation_path |-> EscalationPath ]

\* the switch of assessDisputeCandidate on item.type
assessDisputeCandidate(item) ==
  CASE item.type = "late_payment" ->
         IF item.dispute_reason # <<>>
         THEN Candidate(item, "basic_bureau", 30, 65)
         ELSE Candidate(item, "goodwill", 30, 35)
    [] item.type = "collection" -> Candidate(item, "debt_validation", 45, 55)
    [] item.type = "chargeoff"  -> Candidate(item, "chargeoff_removal", 40, 40)
    [] item.type = "inquiry"    -> Candidate(item, "unauthorized_inquiry", 8, 70)
    [] OTHER                    -> Candidate(item, "basic_bureau", 20, 50)

RECURSIVE SortCandidates(_)
\* .sort((a, b) => b.priority_score - a.priority_score): stable, descending
SortCandidates(cs) ==
  IF cs = <<>> THEN <<>>
  ELSE LET rest == SortCandidates(SubSeq(cs, 1, Len(cs) - 1))
           x    == cs[Len(cs)]
           k    == Cardinality({i \in DOMAIN rest : rest[i].priority_score >= x.priority_score})
       IN  SubSeq(rest, 1, k) \o <<x>> \o SubSeq(rest, k + 1, Len(rest))

\* disputable_items left in the order of negative_items
DisputableItems_Unsorted(items) ==
  LET kept == SelectSeq(items, LAMBDA it : it.disputable # "false") IN
  [i \in DOMAIN kept |-> assessDisputeCandidate(kept[i])]

\* the disputable_items of runAudit
DisputableItems(items) ==
  LET kept == SelectSeq(items, LAMBDA it : it.disputable # "false") IN
  SortCandidates([i \in DOMAIN kept |-> assessDisputeCandidate(kept[i])])

\* a RecommendedAction; count and missing are what the description
\* interpolates
Action(name, impact, cost, days, priority, phase, count, missing) ==
  [ action |-> name, estimated_score_impact |-> impact, cost |-> cost,
    timeline_days |-> days, priority |-> priority, phase |-> phase,
    count |-> count, missing |-> missing ]

\* a comparator under which an action overtakes the equal-priority actions
\* generated before it
KeepsBefore_Strict(a, x) == a.priority < x.priority

\* a.priority - b.priority <= 0: a generated before x stays before it
KeepsBefore(a, x) == a.priority <= x.priority

RECURSIVE SortActions(_)
\* .sort((a, b) => a.priority - b.priority): stable, ascending
SortActions(as) ==
  IF as = <<>> THEN <<>>
  ELSE LET rest == SortActions(SubSeq(as, 1, Len(as) - 1))
           x    == as[Len(as)]
           k    == Cardinality({i \in DOMAIN rest : KeepsBefore(rest[i], x)})
       IN  SubSeq(rest, 1, k) \o <<x>> \o SubSeq(rest, k + 1, Len(rest))

generateRecommendations(profile, phase, utilStatus, missingTypes) ==
  SortActions(
    (IF utilStatus \in {"critical", "fair"}
     THEN <<Action("Reduce utilization", IF utilStatus = "critical" THEN 50 ELSE 25,
                   0, 30, 1, "acceleration", 0, <<>>)>>
     ELSE <<>>)
    \o
    (IF Len(profile.negative_items) > 0
     THEN <<Action("Dispute negative items", 30, 9, 30, 2, "acceleration",
                   Len(profile.negative_items), <<>>)>>
     ELSE <<>>)
    \o
    (IF phase = "foundation" /\ OrZero(profile.total_accounts) < 3
     THEN << Action("Open secured credit card", 20, 200, 7, 3, "foundation", 0, <<>>),
             Action("Open credit builder loan", 15, 25, 7, 4, "foundation", 0, <<>>),
             Action("Become authorized user", 40, 0, 30, 2, "foundation", 0, <<>>) >>
     ELSE <<>>)
    \o
    (IF Len(missingTypes) > 0
     THEN <<Action("Diversify credit mix", 10, 0, 30, 5, "optimization", 0, missingTypes)>>
     ELSE <<>>)
    \o
    (IF phase # "foundation"
     THEN <<Action("Request credit limit increases", 15, 0, 1, 3, "optimization", 0, <<>>)>>
     ELSE <<>>)
    \o
    <<Action("Enable Experian Boost", 10, 0, 1, 4, "acceleration", 0, <<>>)>>)

\* runAudit returns undefined when the user has no profile
NoAudit == [present |-> FALSE]

\* { ...existing, ...updates }: updates is a function from the names of the
\* fields it sets to their values
Spread(existing, updates) ==
  [f \in DOMAIN existing \cup DOMAIN updates |->
     IF f \in DOMAIN updates THEN updates[f] ELSE existing[f]]

\* updateProfile creating the profile when there is none
updateProfile_Upsert(cache, u, updates) ==
  LET existing == IF getProfile(cache, u).present THEN getProfile(cache, u) ELSE Profile(<<>>)
      updated  == Spread(existing, updates)
  IN  [store |-> MapSet(cache, u, updated), value |-> updated]

\* updateProfile: the cache it leaves and the value it returns
updateProfile(cache, u, updates) ==
  LET existing == getProfile(cache, u)
      updated  == Spread(existing, updates)
  IN  IF ~existing.present THEN [store |-> cache, value |-> NoProfile]
      ELSE [store |-> MapSet(cache, u, updated), value |-> updated]

runAudit(cache, u) ==
  LET profile == getProfile(cache, u) IN
  IF ~profile.present THEN NoAudit
  ELSE
    LET phase   == ScorePhase(OrZero(profile.current_score))
        util    == EffectiveUtil(profile)
        types   == AccountTypes(profile)
        signals == << PaymentSignal(profile), UtilSignal(util), AgeSignal(profile),
                      MixSignal(types), InquirySignal(profile) >>
    IN
    [ present                |-> TRUE,
      profile                |-> profile,
      score_phase            |-> phase,
      strengths              |-> signals[1][1] \o signals[2][1] \o signals[3][1]
                                   \o signals[4][1] \o signals[5][1],
      weaknesses             |-> signals[1][2] \o signals[2][2] \o signals[3][2]
                                   \o signals[4][2] \o signals[5][2],
      disputable_items       |-> DisputableItems(profile.negative_items),
      missing_account_types  |-> MissingTypes(types),
      utilization_status     |-> UtilStatus(util),
      payment_history_status |-> PaymentStatus(profile),
      recommended_actions    |-> generateRecommendations(profile, phase, UtilStatus(util),
                                                         MissingTypes(types)) ]

\* ------------------------------------------------------------------------
\* Dispute tracking
\* ------------------------------------------------------------------------

\* the memory id the runtime assigns on createMemory
MemId(n) == <<"mem", n>>

\* addDispute replacing the stored dispute of the same user and target
\* instead of appending
addDispute_Upsert(mems, u, d) ==
  IF \E i \in DOMAIN mems : mems[i].roomId = u /\ mems[i].content.target = d.target
  THEN [i \in DOMAIN mems |->
          IF mems[i].roomId = u /\ mems[i].content.target = d.target
          THEN [mems[i] EXCEPT !.content = d] ELSE mems[i]]
  ELSE Append(mems, [id |-> MemId(Len(mems)), roomId |-> u, content |-> d])

\* addDispute: the record is spread into the content of a new memory of
\* the user's room and appended to the table
addDispute(mems, u, d) ==
  Append(mems, [id |-> MemId(Len(mems)), roomId |-> u, content |-> d])

\* !c['letter_type'] || !c['target']: undefined and '' are both falsy
IsCorrupt(c) == c.letter_type = "" \/ c.target = <<>>

\* memoryToDispute for a memory that passes the shape check
memoryToDispute(m) ==
  [m.content EXCEPT !.id = IF m.content.id # <<>> THEN m.content.id ELSE m.id]

\* getDisputes giving up on the whole table when one memory fails the
\* shape check
MapFilter_AllOrNothing(ms) ==
  IF \E i \in DOMAIN ms : IsCorrupt(ms[i].content) THEN <<>>
  ELSE [i \in DOMAIN ms |-> memoryToDispute(ms[i])]

RECURSIVE MapFilter(_)
\* memories.map(memoryToDispute).filter(d => d !== null)
MapFilter(ms) ==
  IF ms = <<>> THEN <<>>
  ELSE IF IsCorrupt(Head(ms).content) THEN MapFilter(Tail(ms))
  ELSE <<memoryToDispute(Head(ms))>> \o MapFilter(Tail(ms))

\* runtime.getMemories({tableName, roomId})
getMemories(mems, u) == SelectSeq(mems, LAMBDA m : m.roomId = u)

getDisputes(mems, u) == MapFilter(getMemories(mems, u))

\* ['sent', 'delivered'].includes(d.status)
IsOpenStatus(st) == st \in {"sent", "delivered"}

\* getPendingDisputes keeping a record pending until its escalation_date
IsPending_UntilEscalation(d, t) ==
  IsOpenStatus(d.status) /\ DateGt(ParseDate(d.escalation_date), t)

\* the filter of getPendingDisputes
IsPending(d, t) == IsOpenStatus(d.status) /\ DateGt(ParseDate(d.response_deadline), t)

\* getOverdueDisputes comparing with < where the code has <=
IsOverdue_Strict(d, t) ==
  /\ IsOpenStatus(d.status)
  /\ DateLe(ParseDate(d.response_deadline), t)
  /\ ParseDate(d.response_deadline) # t

\* the filter of getOverdueDisputes
IsOverdue(d, t) == IsOpenStatus(d.status) /\ DateLe(ParseDate(d.response_deadline), t)

getPendingDisputes(mems, u, t) == SelectSeq(getDisputes(mems, u), LAMBDA d : IsPending(d, t))

getOverdueDisputes(mems, u, t) == SelectSeq(getDisputes(mems, u), LAMBDA d : IsOverdue(d, t))

\* ------------------------------------------------------------------------
\* Message text
\* ------------------------------------------------------------------------

Range(f) == {f[i] : i \in DOMAIN f}

RECURSIVE JoinParts(_)
\* the raw text: the parts joined by ", "
JoinParts(parts) ==
  IF parts = <<>> THEN <<>>
  ELSE IF Len(parts) = 1 THEN Head(parts)
  ELSE Head(parts) \o <<",", " ">> \o JoinParts(Tail(parts))

\* text.includes(keyword) on the lowercased text
TextIncludes(msg, k) ==
  \E i \in DOMAIN msg : \E j \in DOMAIN msg[i] :
    \/ LowerChar(msg[i][j]) = k
    \/ msg[i][j] = "formal demand" /\ k = "demand"
    \/ msg[i][j] = "unauthorized charge" /\ k = "charge"

\* the else-if cascade of the handler: the first matching rule wins
DetectLetterType(msg) ==
  LET inc(k) == TextIncludes(msg, k) IN
  IF inc("609") THEN "609_verification"
  ELSE IF inc("611") THEN "611_reinvestigation"
  ELSE IF inc("verification") \/ inc("method") THEN "method_of_verification"
  ELSE IF inc("identity") \/ inc("fraud") THEN "identity_theft"
  ELSE IF inc("validation") \/ inc("validate") THEN "debt_validation"
  ELSE IF inc("cease") \/ inc("stop") THEN "cease_desist"
  ELSE IF inc("pay for delete") \/ inc("pay-for-delete") THEN "pay_for_delete"
  ELSE IF inc("goodwill") THEN "goodwill"
  ELSE IF inc("direct") THEN "direct_creditor"
  ELSE IF inc("charge") /\ inc("off") THEN "chargeoff_removal"
  ELSE IF inc("inquiry") \/ inc("hard pull") THEN "unauthorized_inquiry"
  ELSE IF inc("medical") \/ inc("hipaa") THEN "hipaa_medical"
  ELSE IF inc("statute") \/ inc("expired") \/ inc("too old") THEN "statute_of_limitations"
  ELSE IF inc("sue") \/ inc("lawsuit") THEN "intent_to_sue"
  ELSE IF inc("arbitration") THEN "arbitration_election"
  ELSE IF inc("billing") \/ inc("unauthorized charge") THEN "billing_error"
  ELSE IF inc("breach") /\ inc("contract") THEN "breach_of_contract"
  ELSE IF inc("demand") \/ inc("formal demand") THEN "demand_letter"
  ELSE "basic_bureau"

\* detectBureau: "" when no bureau is named
detectBureau(msg) ==
  IF TextIncludes(msg, "equifax") THEN "equifax"
  ELSE IF TextIncludes(msg, "experian") THEN "experian"
  ELSE IF TextIncludes(msg, "transunion") THEN "transunion"
  ELSE ""

\* text.includes('all bureau') || text.includes('all 3') || text.includes('all three')
IsSendAll(msg) ==
  TextIncludes(msg, "all bureau") \/ TextIncludes(msg, "all 3") \/ TextIncludes(msg, "all three")

RECURSIVE FirstMatch(_, _)
\* extractCreditorName: the creditor_name of the first negative item whose
\* lowercased name occurs in the lowercased text; <<>> when there is none
FirstMatch(lower, items) ==
  IF items = <<>> THEN <<>>
  ELSE IF /\ Head(items).creditor_name # <<>>
          /\ StrIncludes(lower, toLowerCase(Head(items).creditor_name))
       THEN Head(items).creditor_name
  ELSE FirstMatch(lower, Tail(items))

extractCreditorName(msg, items) == FirstMatch(toLowerCase(JoinParts(msg)), items)

\* the last comma-separated part matches /^([A-Za-z]{2})\s+(\d{5}(?:-\d{4})?)$/
StateZipMatch(part) == part = <<"ST 12345">>

\* parseCreditorAddress: NoAddress stands for null
parseCreditorAddress(msg) ==
  LET n == Len(msg) IN
  IF n < 4 THEN NoAddress
  ELSE IF ~StateZipMatch(msg[n]) THEN NoAddress
  ELSE LET city == msg[n - 1]
           line == msg[n - 2]
           name == JoinParts(SubSeq(msg, 1, n - 3))
       IN  IF name = <<>> \/ line = <<>> \/ city = <<>> THEN NoAddress
           ELSE Address(name, name, line, city)

\* negativeItems.slice(0, 3)
Slice3(items) == SubSeq(items, 1, IF Len(items) < 3 THEN Len(items) ELSE 3)

\* the bidirectional substring filter of the creditor path, with its
\* fallback to the first three items
ItemsToDispute(items, creditorName) ==
  LET cl == toLowerCase(creditorName)
      creditorItems ==
        SelectSeq(items, LAMBDA i :
          \/ StrIncludes(toLowerCase(i.creditor_name), cl)
          \/ StrIncludes(cl, toLowerCase(i.creditor_name)))
  IN  IF Len(creditorItems) > 0 THEN creditorItems ELSE Slice3(items)

\* messages a user may send
Messages ==
  { << <<"609", " ", "equifax">> >>,
    << <<"dispute">> >>,
    << <<"all 3">> >>,
    << <<"goodwill", " ", "a", " ", "b">> >>,
    << <<"goodwill">> >>,
    << <<"validation", " ", "B", "1">> >>,
    << <<"sue">> >>,
    << <<"sue", " ", "experian">> >>,
    << <<"goodwill", " ", "b", "1", " ", "a", " ", "b">> >>,
    << <<"A", " ", "b">>, <<"1">>, <<"a">>, <<"ST 12345">> >>,
    << <<"A", " ", "b">>, <<"goodwill">>, <<"a">>, <<"ST 12345">> >> }

\* ------------------------------------------------------------------------
\* Mail dispatch gateway
\* ------------------------------------------------------------------------

\* no handler invocation calls the carrier once it has accepted this many
\* letters
MaxLetters == 1

\* failure responses of the carrier: HTTP status and response body
CarrierErrors == { <<"402", "Payment required">>, <<"500", "Internal error">> }

\* the Error thrown by sendCertifiedLetter: `Lob API error ${status}: ${err}`
LobError(e) == <<"Lob API error ", e[1], ": ", e[2]>>

\* the handler's catch reporting a fixed text instead of the error message
FailedText_Generic(message) == <<"Failed: ", "could not send dispute">>

\* the ActionResult text of the handler's catch: `Failed: ${error.message}`
FailedText(message) == <<"Failed: ">> \o message

\* the DisputeRecord built by sendDispute after the carrier accepted letter n
\* at time t
DisputeRecord(letterType, targetLabel, items, t, n) ==
  [ id                |-> <<"uuid", n>>,
    letter_type       |-> letterType,
    target            |-> targetLabel,
    items_disputed    |-> items,
    sent_date         |-> toISOString(t),
    response_deadline |-> toISOString(PlusDays(t, RESPONSE_DAYS)),
    escalation_date   |-> toISOString(PlusDays(t, ESCALATION_DAYS)),
    status            |-> "sent",
    lob_letter_id     |-> <<"ltr", n>> ]

\* sendToAllBureaus issuing the three calls at once (Promise.all)
Dispatch_Concurrent(order) ==
  [issue |-> [i \in DOMAIN order |-> BureauText(order[i])], rest |-> <<>>]

\* the for-await loop of sendToAllBureaus: the call it issues on entry and
\* the bureaus left for later iterations
Dispatch(order) == [issue |-> <<BureauText(Head(order))>>, rest |-> Tail(order)]

\* a gateway that re-sends a failed letter once before giving up
AfterFailure_RetryOnce(t, cs) ==
  IF Cardinality({i \in DOMAIN cs : cs[i].target = t}) < 2 THEN {t} ELSE {}

\* carrier calls issued after a call to target t failed, given the calls
\* made so far: the error propagates to the handler's catch, nothing is re-sent
AfterFailure(t, cs) == {}

\* ------------------------------------------------------------------------
\* SEND_DISPUTE handler
\* ------------------------------------------------------------------------

IdleH ==
  [ pc |-> "idle", user |-> "", letterType |-> "", path |-> "none",
    msg |-> <<>>, rest |-> <<>>, records |-> <<>>, items |-> <<>> ]

NoResult == [success |-> FALSE, kind |-> "none", text |-> <<>>, records |-> <<>>]

Result(ok, kind, text, recs) ==
  [success |-> ok, kind |-> kind, text |-> text, records |-> recs]

\* an entry of the call log: letter is the number of the accepted letter, 0
\* while the call is in flight or when it failed
Call(target, outcome, err, n) ==
  [target |-> target, outcome |-> outcome, error |-> err, letter |-> n]

NoError == <<"", "">>

RECURSIVE AddAll(_, _, _)
\* for (const r of records) await profileService.addDispute(userId, r)
AddAll(mems, u, recs) ==
  IF recs = <<>> THEN mems
  ELSE AddAll(addDispute(mems, u, Head(recs)), u, Tail(recs))

\* the handler returns without calling the carrier
Return(u, msg, lt, r) ==
  /\ result' = r
  /\ h' = [IdleH EXCEPT !.pc = "done", !.user = u, !.msg = msg, !.letterType = lt]
  /\ inflight' = {}
  /\ calls' = <<>>
  /\ UNCHANGED <<now, profiles, memories, lobCount, ret, report, updating>>

\* the handler issues its first carrier call(s) and waits
Issue(u, msg, lt, path, issue, rest, items) ==
  /\ lobCount < MaxLetters
  /\ h' = [ pc |-> "sending", user |-> u, letterType |-> lt, path |-> path,
            msg |-> msg, rest |-> rest, records |-> <<>>, items |-> items ]
  /\ inflight' = Range(issue)
  /\ calls' = [i \in DOMAIN issue |-> Call(issue[i], "inflight", NoError, 0)]
  /\ UNCHANGED <<now, profiles, addresses, memories, lobCount, result, ret, report, updating>>

\* a handler that goes on without negative items
HasNoItems_Skipped(items) == FALSE

\* negativeItems.length === 0
HasNoItems(items) == Len(items) = 0

\* handler: from entry to the first carrier call or to an early return
HandlerStart(u, msg) ==
  LET profile       == getProfile(profiles, u)
      letterType    == DetectLetterType(msg)
      targetType    == TargetType(letterType)
      negativeItems == profile.negative_items
      disputeItems  == Slice3(negativeItems)
      bureau        == IF detectBureau(msg) # "" THEN detectBureau(msg) ELSE "equifax"
      parsed        == parseCreditorAddress(msg)
      creditorName  == extractCreditorName(msg, negativeItems)
      storedAddress == getCreditorAddress(addresses, u, creditorName)
  IN
  /\ h.pc = "idle"
  /\ IF ~profile.present THEN
       /\ Return(u, msg, "", Result(FALSE, "no_profile", <<"No profile found">>, <<>>))
       /\ UNCHANGED addresses
     ELSE IF HasNoItems(negativeItems) THEN
       /\ Return(u, msg, letterType, Result(FALSE, "no_items", <<"No negative items to dispute">>, <<>>))
       /\ UNCHANGED addresses
     ELSE IF targetType = "bureau" \/ (targetType = "any" /\ detectBureau(msg) # "") THEN
       IF IsSendAll(msg)
       THEN Issue(u, msg, letterType, "all", Dispatch(BUREAU_NAMES).issue,
                  Dispatch(BUREAU_NAMES).rest, disputeItems)
       ELSE Issue(u, msg, letterType, "single", <<BureauText(bureau)>>, <<>>, disputeItems)
     ELSE IF targetType = "any" THEN
       /\ Return(u, msg, letterType, Result(TRUE, "ask_target", <<"Awaiting target selection">>, <<>>))
       /\ UNCHANGED addresses
     ELSE IF parsed # NoAddress THEN
       /\ Return(u, msg, letterType, Result(TRUE, "address_saved",
                   <<"Creditor address saved for ">> \o parsed.creditor_name, <<>>))
       /\ addresses' = saveCreditorAddress(addresses, u, parsed)
     ELSE IF creditorName = <<>> THEN
       /\ Return(u, msg, letterType, Result(TRUE, "ask_name", <<"Awaiting name">>, <<>>))
       /\ UNCHANGED addresses
     ELSE IF storedAddress = NoAddress THEN
       /\ Return(u, msg, letterType, Result(TRUE, "ask_address",
                   <<"Awaiting address for ">> \o creditorName, <<>>))
       /\ UNCHANGED addresses
     ELSE
       Issue(u, msg, letterType, "creditor", <<storedAddress.name>>, <<>>,
             ItemsToDispute(negativeItems, creditorName))

\* the entry of calls for the in-flight call to target t gets its outcome
Settle(cs, t, outcome, err, n) ==
  [i \in DOMAIN cs |->
     IF cs[i].target = t /\ cs[i].outcome = "inflight"
     THEN Call(t, outcome, err, n) ELSE cs[i]]

\* the carrier accepts the letter to target t: sendDispute builds the record;
\* sendToAllBureaus goes on to the next bureau or returns; the handler then
\* records the dispute(s) and reports success
CarrierOk(t) ==
  LET record  == DisputeRecord(h.letterType, t, h.items, now, lobCount + 1)
      records == Append(h.records, record)
      next    == IF h.rest = <<>> THEN {} ELSE {BureauText(Head(h.rest))}
      flying  == (inflight \ {t}) \cup next
  IN
  /\ h.pc = "sending"
  /\ t \in inflight
  /\ lobCount' = lobCount + 1
  /\ inflight' = flying
  /\ IF flying # {} THEN
       /\ h' = [h EXCEPT !.records = records,
                         !.rest = IF h.rest = <<>> THEN <<>> ELSE Tail(h.rest)]
       /\ calls' = Settle(calls, t, "ok", NoError, lobCount + 1) \o
                     [i \in 1..Cardinality(next) |->
                        Call(BureauText(Head(h.rest)), "inflight", NoError, 0)]
       /\ UNCHANGED <<memories, result>>
     ELSE
       /\ h' = [h EXCEPT !.pc = "done", !.records = records]
       /\ calls' = Settle(calls, t, "ok", NoError, lobCount + 1)
       /\ memories' = AddAll(memories, h.user, records)
       /\ result' = Result(TRUE, "sent", <<"Dispute(s) sent successfully">>, records)
  /\ UNCHANGED <<now, profiles, addresses, ret, report, updating>>

\* the carrier answers the call to target t with a non-success status:
\* sendCertifiedLetter throws, the error propagates through sendDispute (and
\* sendToAllBureaus) to the handler's catch
CarrierFail(t, e) ==
  LET again == AfterFailure(t, calls) IN
  /\ h.pc = "sending"
  /\ t \in inflight
  /\ IF again # {} THEN
       /\ inflight' = (inflight \ {t}) \cup again
       /\ calls' = Append(Settle(calls, t, "failed", e, 0), Call(t, "inflight", NoError, 0))
       /\ UNCHANGED <<h, result>>
     ELSE
       /\ inflight' = {}
       /\ calls' = Settle(calls, t, "failed", e, 0)
       /\ h' = [h EXCEPT !.pc = "done"]
       /\ result' = Result(FALSE, "failed", FailedText(LobError(e)), <<>>)
  /\ UNCHANGED <<now, profiles, addresses, memories, lobCount, ret, report, updating>>

\* the runtime takes the ActionResult: the invocation is over
HandlerReturn ==
  /\ h.pc = "done"
  /\ h' = IdleH
  /\ result' = NoResult
  /\ calls' = <<>>
  /\ UNCHANGED <<now, profiles, addresses, memories, lobCount, inflight, ret, report, updating>>

\* ------------------------------------------------------------------------
\* Service operations called by other actions of the plugin
\* ------------------------------------------------------------------------

\* a dispute record as a caller of addDispute may pass it
Dispute(id, lt, target, deadline, st) ==
  [ id                |-> id,
    letter_type       |-> lt,
    target            |-> target,
    items_disputed    |-> <<>>,
    sent_date         |-> toISOString(Instant(0, 0)),
    response_deadline |-> deadline,
    escalation_date   |-> toISOString(Instant(ESCALATION_DAYS, 0)),
    status            |-> st,
    lob_letter_id     |-> <<>> ]

\* records passed to addDispute for a second user, whose history shares the
\* table with the first user's
OtherUser == "u2"

OtherUserChoices ==
  { Dispute(<<"o", "sent">>, "basic_bureau", <<"equifax">>, toISOString(Instant(RESPONSE_DAYS, 0)), "sent"),
    Dispute(<<"o", "nolt">>, "", <<"equifax">>, toISOString(Instant(RESPONSE_DAYS, 0)), "sent") }

\* records passed to addDispute directly
DisputeChoices ==
  { Dispute(<<"d", st>>, "basic_bureau", <<"equifax">>, toISOString(Instant(RESPONSE_DAYS, 0)), st) :
      st \in Statuses }
  \cup
  { Dispute(<<"d", "nodl">>, "basic_bureau", <<"equifax">>, NoDateString, "sent"),
    Dispute(<<>>, "basic_bureau", <<"experian">>, toISOString(Instant(RESPONSE_DAYS, 1)), "sent"),
    Dispute(<<"d", "nolt">>, "", <<"equifax">>, toISOString(Instant(RESPONSE_DAYS, 0)), "sent"),
    Dispute(<<"d", "notg">>, "goodwill", <<>>, toISOString(Instant(RESPONSE_DAYS, 0)), "delivered") }

SaveProfile(u, p) ==
  /\ h.pc = "idle"
  /\ profiles' = MapSet(profiles, u, p)
  /\ UNCHANGED <<now, addresses, memories, lobCount, inflight, calls, h, result, ret, report, updating>>

SaveCreditorAddress(u, a) ==
  /\ h.pc = "idle"
  /\ addresses' = saveCreditorAddress(addresses, u, a)
  /\ UNCHANGED <<now, profiles, memories, lobCount, inflight, calls, h, result, ret, report, updating>>

AddDispute(u, d) ==
  /\ h.pc = "idle"
  /\ Len(memories) < MaxMem
  /\ memories' = addDispute(memories, u, d)
  /\ UNCHANGED <<now, profiles, addresses, lobCount, inflight, calls, h, result, ret, report, updating>>

\* amounts of time that pass between two steps: [day, ms]
Jumps == { <<0, 1>>, <<RESPONSE_DAYS, 0>>, <<ESCALATION_DAYS, 0>> }

\* time passes (also while a carrier call is in flight)
Tick(j) ==
  /\ h.pc # "done"
  /\ now.day + j[1] <= MaxDay
  /\ now.ms + j[2] <= MaxMs
  /\ now' = Instant(now.day + j[1], now.ms + j[2])
  /\ UNCHANGED <<profiles, addresses, memories, lobCount, inflight, calls, h, result, ret, report, updating>>

\* ------------------------------------------------------------------------
\* Specification
\* ------------------------------------------------------------------------

EmptyMap == [x \in {} |-> NoProfile]

\* no dispute report is being built
NoReport == [pc |-> "idle", user |-> "", pending |-> <<>>, overdue |-> <<>>, all |-> <<>>]

\* no service function has been called directly
NoCall == [op |-> "none", arg |-> <<>>, value |-> <<>>]

Init ==
  /\ now = Instant(0, 0)
  /\ profiles = EmptyMap
  /\ addresses = EmptyMap
  /\ memories = <<>>
  /\ lobCount = 0
  /\ inflight = {}
  /\ calls = <<>>
  /\ h = IdleH
  /\ result = NoResult
  /\ ret = NoCall
  /\ report = NoReport
  /\ updating = {}

\* the user whose requests the SEND_DISPUTE handler serves
Requester == "u1"

\* SEND_DISPUTE requests of one user, with the profile and address saves
\* they depend on
Next ==
  \/ \E msg \in Messages : HandlerStart(Requester, msg)
  \/ \E t \in inflight : CarrierOk(t)
  \/ \E t \in inflight, e \in CarrierErrors : CarrierFail(t, e)
  \/ HandlerReturn
  \/ \E p \in ProfileChoices : SaveProfile(Requester, p)
  \/ \E a \in AddressChoices : SaveCreditorAddress(Requester, a)
  \/ \E j \in Jumps : Tick(j)

Spec == Init /\ [][Next]_vars

\* the dispute tracker driven directly through the service, for two users
\* sharing the memory table
TrackerNext ==
  \/ \E d \in DisputeChoices : AddDispute(Requester, d)
  \/ \E d \in OtherUserChoices : AddDispute(OtherUser, d)
  \/ \E p \in ProfileChoices : SaveProfile(Requester, p)
  \/ \E a \in AddressChoices : SaveCreditorAddress(Requester, a)
  \/ \E j \in Jumps : Tick(j)

TrackerSpec == Init /\ [][TrackerNext]_vars

\* ------------------------------------------------------------------------
\* Properties
\* ------------------------------------------------------------------------

\* the date string dl denotes an instant strictly after t
After(dl, t) ==
  dl.kind = "iso" /\ (dl.day > t.day \/ (dl.day = t.day /\ dl.ms > t.ms))

\* the date string dl denotes an instant at or before t
AtOrBefore(dl, t) ==
  dl.kind = "iso" /\ (dl.day < t.day \/ (dl.day = t.day /\ dl.ms <= t.ms))

\* s is a subsequence of r that keeps exactly the elements satisfying Keep
IsSelection(s, r, Keep(_)) ==
  /\ Range(s) = {r[i] : i \in {j \in DOMAIN r : Keep(r[j])}}
  /\ Len(s) = Cardinality({j \in DOMAIN r : Keep(r[j])})

Pending(u) == getPendingDisputes(memories, u, now)

Overdue(u) == getOverdueDisputes(memories, u, now)

Readable(u) == getDisputes(memories, u)

\* C1: at any instant and for any dispute history, getPendingDisputes
\* returns exactly the readable records with status sent or delivered and
\* response_deadline > now, getOverdueDisputes exactly those with status
\* sent or delivered and response_deadline <= now, the two are disjoint, and
\* a record with any other status is in neither.
C1_PendingOverduePartition ==
  \A u \in Users :
    /\ IsSelection(Pending(u), Readable(u),
         LAMBDA d : d.status \in {"sent", "delivered"} /\ After(d.response_deadline, now))
    /\ IsSelection(Overdue(u), Readable(u),
         LAMBDA d : d.status \in {"sent", "delivered"} /\ AtOrBefore(d.response_deadline, now))
    /\ Range(Pending(u)) \cap Range(Overdue(u)) = {}
    /\ \A i \in DOMAIN Readable(u) :
         Readable(u)[i].status \in {"resolved", "escalated", "response_received", "draft", "overdue"}
           => Readable(u)[i] \notin Range(Pending(u)) \cup Range(Overdue(u))

\* C1 witness: a user has one pending and one overdue dispute at the same
\* instant, the overdue one exactly at its deadline
C1_Witness ==
  \E u \in Users :
    /\ Len(Pending(u)) = 1
    /\ Len(Overdue(u)) = 1
    /\ ParseDate(Overdue(u)[1].response_deadline) = now

\* the records of the requesting user that were stored with status 'sent'
SentRecords == {d \in Range(Readable(Requester)) : d.status = "sent"}

C2_Now ==
  LET pending == Range(Pending(Requester))
      overdue == Range(Overdue(Requester))
  IN
  \A d \in SentRecords :
    /\ After(d.response_deadline, now) => d \in pending /\ d \notin overdue
    /\ AtOrBefore(d.response_deadline, now) => d \in overdue /\ d \notin pending
    /\ d \in pending \cup overdue
    /\ (d.sent_date.kind = "iso" /\ now.day - d.sent_date.day = 35 /\ now.ms = d.sent_date.ms) =>
         d \in overdue /\ d \notin pending

C2_Step ==
  LET overdue      == Range(Overdue(Requester))
      pendingAfter == Range(getPendingDisputes(memories', Requester, now'))
      overdueAfter == Range(getOverdueDisputes(memories', Requester, now'))
  IN
  (now' # now \/ memories' # memories) =>
    \A d \in SentRecords :
      /\ d \in overdue => d \in overdueAfter /\ d \notin pendingAfter
      /\ d \in pendingAfter \cup overdueAfter

\* C2: a record stored with status 'sent' whose status is never changed is
\* pending and not overdue before its response_deadline, overdue and not
\* pending from the deadline on, never returns from overdue to pending and
\* never leaves pending \cup overdue as the clock advances or the history
\* grows; a dispute sent 35 days ago is overdue and not pending.
C2_SentRecordLifecycle == [](C2_Now) /\ [][C2_Step]_vars

\* C2 witness: a dispute sent by the handler exactly 35 days ago is overdue
C2_Witness ==
  \E d \in SentRecords :
    /\ now.day - d.sent_date.day = 35
    /\ now.ms = d.sent_date.ms
    /\ d \in Range(Overdue(Requester))

\* the invocation that is finishing in this step ended on a carrier failure
FailsNow == h.pc = "sending" /\ h'.pc = "done" /\ result'.kind = "failed"

\* the failed call of the invocation that has just finished
FailedCalls(cs) == {i \in DOMAIN cs : cs[i].outcome = "failed"}

C3_Step ==
  /\ (h.pc = "idle" /\ h'.pc = "sending") =>
       /\ memories' = memories
       /\ profiles' = profiles
       /\ addresses' = addresses
  /\ (FailsNow /\ h.path \in {"single", "creditor"}) =>
       /\ memories' = memories
       /\ \A u \in Users : getDisputes(memories', u) = getDisputes(memories, u)
       /\ profiles' = profiles
       /\ addresses' = addresses
       /\ result'.success = FALSE
       /\ \E i \in FailedCalls(calls') :
            /\ \E k \in DOMAIN result'.text : result'.text[k] = calls'[i].error[1]
            /\ \E k \in DOMAIN result'.text : result'.text[k] = calls'[i].error[2]

\* C3: when the carrier returns a non-success status for a single-target
\* SEND_DISPUTE, no DisputeRecord is appended to the dispute history, the
\* profile store and the creditor-address cache are unchanged, and the
\* handler returns a failure result whose text contains the carrier's
\* status and failure reason.
C3_SingleTargetFailureWritesNothing == [][C3_Step]_vars

\* C3 witness: a single-bureau request has ended on a carrier failure
C3_Witness ==
  /\ h.pc = "done"
  /\ h.path = "single"
  /\ result.kind = "failed"
  /\ Len(calls) = 1

\* the letters the carrier accepted during the current invocation
AcceptedLetters == {calls[i].letter : i \in {j \in DOMAIN calls : calls[j].outcome = "ok"}}

\* the letter numbers of the disputes recorded for the requesting user
TrackedLetters ==
  {d.lob_letter_id[2] : d \in {r \in Range(Readable(h.user)) : Len(r.lob_letter_id) = 2}}

\* C4 (as claimed): when a send-to-all-three-bureaus request has failed at
\* bureau k = 2 or 3, the dispute records of the bureaus before k are in
\* the user's dispute history, and no carrier call was made for any bureau
\* after k.
C4_PartialSendKeepsEarlierRecords ==
  (h.pc = "done" /\ h.path = "all" /\ result.kind = "failed") =>
    /\ AcceptedLetters \subseteq TrackedLetters
    /\ \A i \in FailedCalls(calls) : i = Len(calls)

\* C5: sendToAllBureaus dispatches strictly sequentially in the order
\* equifax, experian, transunion: a call starts only after the previous one
\* has completed, two calls are never in flight at once, and when all
\* succeed exactly three calls were made and the returned list holds three
\* records whose targets are equifax, experian, transunion in that order.
C5_SequentialBureauDispatch ==
  /\ Cardinality(inflight) <= 1
  /\ h.path = "all" =>
       /\ Len(calls) <= 3
       /\ \A i \in DOMAIN calls :
            /\ calls[i].target = <<(<<"equifax", "experian", "transunion">>)[i]>>
            /\ i < Len(calls) => calls[i].outcome = "ok"
            /\ calls[i].outcome = "inflight" => inflight = {calls[i].target}
  /\ (h.pc = "done" /\ h.path = "all" /\ result.success) =>
       /\ Len(calls) = 3
       /\ \A i \in DOMAIN calls : calls[i].outcome = "ok"
       /\ [i \in DOMAIN result.records |-> result.records[i].target]
            = << <<"equifax">>, <<"experian">>, <<"transunion">> >>

\* C5 witness: a send-to-all request has succeeded for all three bureaus
C5_Witness ==
  /\ h.pc = "done"
  /\ h.path = "all"
  /\ result.success
  /\ Len(result.records) = 3

C6_Now ==
  /\ \A i, j \in DOMAIN calls : i # j => calls[i].target # calls[j].target
  /\ \A i \in FailedCalls(calls) : i = Len(calls)
  /\ FailedCalls(calls) # {} => inflight = {}

C6_Step ==
  (FailedCalls(calls) # {} /\ calls' # calls) => (h.pc = "done" /\ h'.pc = "idle")

\* C6: a failed carrier call is never retried automatically: within one
\* handler invocation the carrier is called at most once per (letter,
\* target) pair, after the first failure no further call is made in that
\* invocation, and the call log only starts again with a new request.
C6_NoAutomaticRetry == [](C6_Now) /\ [][C6_Step]_vars

\* C6 witness: a send-to-all request failed at the second bureau after the
\* first had been accepted
C6_Witness ==
  /\ h.pc = "done"
  /\ h.path = "all"
  /\ Len(calls) = 2
  /\ calls[1].outcome = "ok"
  /\ calls[2].outcome = "failed"

\* the memories whose content carries both letter_type and target
WellFormed(mems) ==
  SelectSeq(mems, LAMBDA m : m.content.letter_type # "" /\ m.content.target # <<>>)

\* every record read back before the step is read back unchanged after it,
\* at the same position
C7_AppendOnly ==
  \A u \in Users :
    LET before == getDisputes(memories, u)
        after  == getDisputes(memories', u)
    IN
    /\ Len(before) <= Len(after)
    /\ \A i \in DOMAIN before : after[i] = before[i]

\* every stored record with letter_type and target is read back equal on
\* every field
C7_RoundTripAll ==
  \A u \in Users :
    LET read == Range(getDisputes(memories, u)) IN
    \A i \in DOMAIN memories :
      (memories[i].roomId = u
         /\ memories[i].content.letter_type # "" /\ memories[i].content.target # <<>>) =>
        memories[i].content \in read

\* C7 (as claimed): after addDispute(u, d) with letter_type and target
\* present, getDisputes(u) contains a record equal to d on every field, and
\* under any sequence of service operations every record previously
\* returned by getDisputes(u) is still returned with all fields unchanged.
C7_Original == [](C7_RoundTripAll) /\ [][C7_AppendOnly]_vars

\* a stored record with letter_type, target and a non-empty id is read back
\* equal on every field; one with an empty id is read back with the id of
\* its memory and equal on every other field
C7_RoundTripWithId ==
  \A u \in Users :
    LET read == Range(getDisputes(memories, u)) IN
    \A i \in DOMAIN memories :
      LET c == memories[i].content IN
      (memories[i].roomId = u /\ c.letter_type # "" /\ c.target # <<>>) =>
        /\ c.id # <<>> => c \in read
        /\ c.id = <<>> => [c EXCEPT !.id = memories[i].id] \in read

\* C7 (amended): the dispute history is append-only: after addDispute(u, d)
\* with letter_type, target and a non-empty id, getDisputes(u) contains a
\* record equal to d on every field (a record with an empty id is returned
\* with the id of its memory instead), and every record previously returned
\* by getDisputes(u) is still returned with all fields unchanged, in
\* particular its response_deadline and escalation_date.
C7_AppendOnlyHistory == [](C7_RoundTripWithId) /\ [][C7_AppendOnly]_vars

\* C7 witness: a user has two readable disputes for the same target, the
\* first of which was stored before the second
C7_Witness ==
  \E u \in Users :
    /\ Len(getDisputes(memories, u)) = 2
    /\ getDisputes(memories, u)[1].target = getDisputes(memories, u)[2].target
    /\ getDisputes(memories, u)[1].id # <<>>
    /\ getDisputes(memories, u)[1] # getDisputes(memories, u)[2]

C8_Now ==
  LET clean == WellFormed(memories) IN
  \A u \in Users :
    LET read == Readable(u) IN
    /\ \A d \in Range(read) : d.letter_type # "" /\ d.target # <<>>
    /\ read = getDisputes(clean, u)
    /\ Pending(u) = getPendingDisputes(clean, u, now)
    /\ Overdue(u) = getOverdueDisputes(clean, u, now)
    /\ Len(read) = Len(WellFormed(getMemories(memories, u)))

C8_Step ==
  /\ Len(memories') >= Len(memories)
  /\ SubSeq(memories', 1, Len(memories)) = memories
  /\ (Len(memories') = Len(memories) + 1
        /\ (memories'[Len(memories')].content.letter_type = ""
              \/ memories'[Len(memories')].content.target = <<>>)) =>
       \A u \in Users :
         /\ getDisputes(memories', u) = getDisputes(memories, u)
         /\ getPendingDisputes(memories', u, now') = getPendingDisputes(memories, u, now)
         /\ getOverdueDisputes(memories', u, now') = getOverdueDisputes(memories, u, now)

\* C8: a stored dispute record that lacks letter_type or target is excluded
\* from getDisputes, getPendingDisputes and getOverdueDisputes, it stays in
\* the underlying store, and its presence does not change which other
\* records of the same user those queries return.
C8_TolerantReads == [](C8_Now) /\ [][C8_Step]_vars

\* C8 witness: a user's room holds a record without letter_type or target
\* next to a readable one, and only the readable one is returned
C8_Witness ==
  \E u \in Users :
    /\ Len(getMemories(memories, u)) = 2
    /\ Len(WellFormed(getMemories(memories, u))) = 1
    /\ Len(getDisputes(memories, u)) = 1
    /\ Len(getPendingDisputes(memories, u, now)) = 1

\* the record d was sent at the ISO date string T
SentAt(d, T) ==
  /\ d.status = "sent"
  /\ d.sent_date = T
  /\ d.response_deadline = [kind |-> "iso", day |-> T.day + 30, ms |-> T.ms]
  /\ d.escalation_date = [kind |-> "iso", day |-> T.day + 35, ms |-> T.ms]
  /\ d.escalation_date.day - d.response_deadline.day = 5
  /\ d.escalation_date.ms = d.response_deadline.ms

C9_Step ==
  lobCount' = lobCount + 1 =>
    /\ Len(h'.records) = Len(h.records) + 1
    /\ SentAt(h'.records[Len(h'.records)], [kind |-> "iso", day |-> now.day, ms |-> now.ms])

C9_Now ==
  \A d \in Range(h.records) \cup Range(result.records) \cup Range(Readable(Requester)) :
    d.sent_date.kind = "iso" /\ SentAt(d, d.sent_date)

\* C9: every DisputeRecord returned by sendDispute, for any send time T and
\* for bureau and explicit-address targets, has status 'sent', sent_date =
\* T, response_deadline = T + 30 days exactly and escalation_date = T + 35
\* days exactly.
C9_DeadlineArithmetic == [](C9_Now) /\ [][C9_Step]_vars

\* C9 witness: a record sent to an explicit address at a time of day other
\* than midnight has been recorded
C9_Witness ==
  \E d \in Range(Readable(Requester)) :
    /\ d.target \notin {<<"equifax">>, <<"experian">>, <<"transunion">>}
    /\ d.sent_date.ms # 0
    /\ d.status = "sent"

\* the positions of the negative items whose creditor name occurs in the
\* message, compared in lower case
NamedItems(msg, items) ==
  { i \in DOMAIN items :
      /\ items[i].creditor_name # <<>>
      /\ StrIncludes(toLowerCase(JoinParts(msg)), toLowerCase(items[i].creditor_name)) }

\* an address is stored for (u, name): one was saved under a name with the
\* same normalized form
HasAddress(u, name) ==
  \E k \in DOMAIN addresses :
    k[1] = u /\ k[2] = normalizeCreditorName(name)

\* the step is the handling of a request of h'.user whose letter type
\* targets a creditor or collector, with a profile, negative items and a
\* message that is not itself an address
C10_Request ==
  /\ h.pc = "idle" /\ h'.pc # "idle"
  /\ getProfile(profiles, h'.user).present
  /\ Len(getProfile(profiles, h'.user).negative_items) > 0
  /\ TargetType(DetectLetterType(h'.msg)) \in {"creditor", "collector"}
  /\ parseCreditorAddress(h'.msg) = NoAddress

\* what the handler does when it does not dispatch
C10_Asks ==
  /\ result'.success
  /\ result'.kind \in {"ask_name", "ask_address"}
  /\ result'.records = <<>>
  /\ calls' = <<>> /\ inflight' = {}
  /\ lobCount' = lobCount
  /\ memories' = memories

C10_OriginalStep ==
  C10_Request =>
    LET items == getProfile(profiles, h'.user).negative_items
        named == NamedItems(h'.msg, items)
    IN
    /\ h'.pc = "sending" <=>
         \E i \in named : HasAddress(h'.user, items[i].creditor_name)
    /\ h'.pc # "sending" => C10_Asks

C10_Step ==
  C10_Request =>
    LET items == getProfile(profiles, h'.user).negative_items
        named == NamedItems(h'.msg, items)
        first == CHOOSE i \in named : \A j \in named : i <= j
    IN
    /\ h'.pc = "sending" <=>
         (named # {} /\ HasAddress(h'.user, items[first].creditor_name))
    /\ h'.pc = "sending" =>
         /\ h'.path = "creditor"
         /\ Len(calls') = 1
         /\ calls'[1].target =
              addresses[<<h'.user, normalizeCreditorName(items[first].creditor_name)>>].name
         /\ memories' = memories
    /\ h'.pc # "sending" =>
         /\ C10_Asks
         /\ result'.kind = "ask_name" <=> named = {}

\* an address given in a message is stored for the creditor it names, and
\* no stored address is ever removed
C10_SaveStep ==
  /\ DOMAIN addresses \subseteq DOMAIN addresses'
  /\ (h.pc = "idle" /\ h'.pc = "done" /\ result'.kind = "address_saved") =>
       /\ AddrKey(h'.user, parseCreditorAddress(h'.msg).creditor_name) \in DOMAIN addresses'
       /\ getCreditorAddress(addresses', h'.user, parseCreditorAddress(h'.msg).creditor_name)
            = parseCreditorAddress(h'.msg)

C11_AddressReply ==
  /\ h.pc = "idle" /\ h'.pc # "idle"
  /\ getProfile(profiles, h'.user).present
  /\ parseCreditorAddress(h'.msg) # NoAddress
  /\ \E i \in DOMAIN getProfile(profiles, h'.user).negative_items :
       normalizeCreditorName(getProfile(profiles, h'.user).negative_items[i].creditor_name)
         = normalizeCreditorName(parseCreditorAddress(h'.msg).creditor_name)
  /\ ~HasAddress(h'.user, parseCreditorAddress(h'.msg).creditor_name)

C11_Step ==
  C11_AddressReply =>
    /\ h'.pc = "done"
    /\ result'.success /\ result'.kind = "address_saved"
    /\ getCreditorAddress(addresses', h'.user, parseCreditorAddress(h'.msg).creditor_name)
         = parseCreditorAddress(h'.msg)
    /\ calls' = <<>> /\ inflight' = {}
    /\ lobCount' = lobCount
    /\ memories' = memories

\* C11: when the handler has asked for a creditor's mailing address and the
\* user replies with a message that is only the address in the prompted
\* format, SEND_DISPUTE saves that address for the named creditor and
\* answers 'Address saved', and in that invocation no carrier call is made
\* and no dispute record is appended.
C11_AddressReplySaved == [][C11_Step]_vars

\* the step handles a request of a user without a profile or without
\* negative items
C12_Unmet ==
  /\ h.pc = "idle" /\ h'.pc # "idle"
  /\ \/ h'.user \notin DOMAIN profiles
     \/ Len(getProfile(profiles, h'.user).negative_items) = 0

C12_Step ==
  C12_Unmet =>
    /\ h'.pc = "done"
    /\ ~result'.success
    /\ h'.user \notin DOMAIN profiles =>
         result'.kind = "no_profile" /\ result'.text = <<"No profile found">>
    /\ h'.user \in DOMAIN profiles =>
         result'.kind = "no_items" /\ result'.text = <<"No negative items to dispute">>
    /\ result'.records = <<>>
    /\ calls' = <<>> /\ inflight' = {}
    /\ lobCount' = lobCount
    /\ memories' = memories
    /\ profiles' = profiles
    /\ addresses' = addresses

\* C12: when no profile exists for the user, or the profile has no negative
\* items, the handler returns a failure result with a guidance message,
\* makes no carrier call, appends no dispute record and writes nothing to
\* the profile store or the address cache, for every message text.
C12_PreconditionFailures == [][C12_Step]_vars

\* C12 witness: a message that is itself a creditor address was refused
\* because the profile has no negative items
C12_Witness ==
  /\ h.pc = "done"
  /\ result.kind = "no_items"
  /\ parseCreditorAddress(h.msg) # NoAddress
  /\ TargetType(DetectLetterType(h.msg)) \in {"creditor", "collector"}
  /\ addresses = EmptyMap

\* ------------------------------------------------------------------------
\* The creditor address cache driven directly through the service
\* ------------------------------------------------------------------------

\* addresses passed to saveCreditorAddress: two spellings of one creditor
\* and another creditor, each with two street lines
CacheAddressChoices ==
  { Address(n, n, l, <<"a">>) : n \in {NameA, NameAVariant, NameB}, l \in {<<"1">>, <<"2">>} }

\* raw names passed to getCreditorAddress
RawNames == {NameA, NameAVariant, NameB, <<"a", "b">>, <<"!">>, EmptyString}

\* a direct call of saveCreditorAddress, with its arguments on record
CacheSave(u, a) ==
  /\ addresses' = saveCreditorAddress(addresses, u, a)
  /\ ret' = [op |-> "saveCreditorAddress", arg |-> <<u, a>>, value |-> <<>>]
  /\ UNCHANGED <<now, profiles, memories, lobCount, inflight, calls, h, result, report, updating>>

CacheNext ==
  \E u \in Users, a \in CacheAddressChoices : CacheSave(u, a)

CacheSpec == Init /\ [][CacheNext]_vars

C13_Now ==
  \A u \in Users, n \in RawNames :
    /\ (\A a \in CacheAddressChoices :
          <<u, normalizeCreditorName(a.creditor_name)>> \in DOMAIN addresses
            => normalizeCreditorName(a.creditor_name) # normalizeCreditorName(n))
         => getCreditorAddress(addresses, u, n) = NoAddress
    /\ \A m \in RawNames :
         normalizeCreditorName(m) = normalizeCreditorName(n) =>
           getCreditorAddress(addresses, u, m) = getCreditorAddress(addresses, u, n)

\* a step in which saveCreditorAddress(u, a) returns
C13_Step ==
  ret'.op = "saveCreditorAddress" =>
    LET u == ret'.arg[1]
        a == ret'.arg[2]
    IN
    /\ \A n \in RawNames :
         normalizeCreditorName(n) = normalizeCreditorName(a.creditor_name) =>
           getCreditorAddress(addresses', u, n) = a
    /\ \A v \in Users, n \in RawNames :
         (v # u \/ normalizeCreditorName(n) # normalizeCreditorName(a.creditor_name)) =>
           getCreditorAddress(addresses', v, n) = getCreditorAddress(addresses, v, n)

\* C13: after saveCreditorAddress(u, a), getCreditorAddress(u, n) returns a
\* for every raw name n with normalize(n) = normalize(a.creditor_name); a
\* later save for the same user and normalized name replaces the earlier
\* value; a save never changes what is returned for another normalized name
\* or another user; a name with no saved address yields absent.
C13_AddressCache == [](C13_Now) /\ [][C13_Step]_vars

\* C13 witness: the last save replaced an address stored under another
\* spelling, and a lookup under the first spelling returns the new one, next
\* to an address of another creditor, while another user has none
C13_Witness ==
  /\ ret.op = "saveCreditorAddress"
  /\ ret.arg = <<"u1", Address(NameAVariant, NameAVariant, <<"2">>, <<"a">>)>>
  /\ getCreditorAddress(addresses, "u1", NameA) = Address(NameAVariant, NameAVariant, <<"2">>, <<"a">>)
  /\ getCreditorAddress(addresses, "u1", NameB) = Address(NameB, NameB, <<"1">>, <<"a">>)
  /\ getCreditorAddress(addresses, "u1", <<"a", "b">>) = NoAddress
  /\ getCreditorAddress(addresses, "u2", NameA) = NoAddress

\* ------------------------------------------------------------------------
\* normalizeCreditorName applied to arbitrary names
\* ------------------------------------------------------------------------

\* characters of the names: a letter in both cases, a digit, two separators
Alphabet == {"a", "A", "1", " ", "-"}

\* all names of at most MaxLen characters
Names == UNION { [1..k -> Alphabet] : k \in 0..MaxLen }

NormInit ==
  /\ now = Instant(0, 0)
  /\ profiles = EmptyMap
  /\ addresses = EmptyMap
  /\ memories = <<>>
  /\ lobCount = 0
  /\ inflight = {}
  /\ calls = <<>>
  /\ h = IdleH
  /\ result = NoResult
  /\ report = NoReport
  /\ updating = {}
  /\ \E name \in Names : ret = [op |-> "input", arg |-> name, value |-> EmptyString]

\* normalizeCreditorName is called on the name, or again on its own output
Normalize ==
  /\ ret.op \in {"input", "normalizeCreditorName"}
  /\ LET name == IF ret.op = "input" THEN ret.arg ELSE ret.value IN
     ret' = [op |-> "normalizeCreditorName", arg |-> name, value |-> normalizeCreditorName(name)]
  /\ UNCHANGED <<now, profiles, addresses, memories, lobCount, inflight, calls, h, result, report, updating>>

NormNext == Normalize

NormSpec == NormInit /\ [][NormNext]_vars

\* a character that is a letter or a digit, in either case
IsAlnum(c) == c \notin {" ", "-", "!", ","}

RECURSIVE SplitTokens(_, _)
\* the maximal runs of letters and digits of s, lowercased; cur is the run
\* being read
SplitTokens(s, cur) ==
  IF s = <<>> THEN (IF cur = <<>> THEN <<>> ELSE <<cur>>)
  ELSE IF IsAlnum(Head(s)) THEN SplitTokens(Tail(s), Append(cur, LowerChar(Head(s))))
  ELSE (IF cur = <<>> THEN <<>> ELSE <<cur>>) \o SplitTokens(Tail(s), <<>>)

Tokens(s) == SplitTokens(s, <<>>)

\* C14: for all names a, b: normalize(a) = normalize(b) if and only if a and
\* b reduce to the same sequence of lowercased alphanumeric tokens; the
\* output has only lowercase letters, digits and single inner separators;
\* normalize("") = ""; and normalize is idempotent.
C14_NormalizeTokens ==
  ret.op = "normalizeCreditorName" =>
    /\ \A b \in Names :
         ret.value = normalizeCreditorName(b) <=> Tokens(ret.arg) = Tokens(b)
    /\ \A i \in DOMAIN ret.value :
         /\ ret.value[i] \in {"a", "1", "-"}
         /\ ret.value[i] = "-" => i \notin {1, Len(ret.value)} /\ ret.value[i + 1] # "-"
    /\ ret.arg = EmptyString => ret.value = EmptyString
    /\ normalizeCreditorName(ret.value) = ret.value
    /\ normalizeCreditorName(NameA) = normalizeCreditorName(NameAVariant)
    /\ normalizeCreditorName(<<"a", " ", "1">>) # normalizeCreditorName(<<"a", "1">>)

\* C14 witness: a name with an upper-case letter followed by a run of two
\* separators has been normalized
C14_Witness ==
  /\ ret.op = "normalizeCreditorName"
  /\ ret.arg = <<"A", " ", "-">>
  /\ ret.value = <<"a">>

\* ------------------------------------------------------------------------
\* Profile store and audit driven directly through the service
\* ------------------------------------------------------------------------

ScoreChoices == {Absent, <<0>>, <<579>>, <<580>>, <<669>>, <<670>>, <<739>>, <<740>>, <<850>>}

\* stored on-time percentages, as fractions (197/2 is 98.5)
OnTimeChoices ==
  { Absent, <<0, 1>>, <<84, 1>>, <<169, 2>>, <<85, 1>>, <<94, 1>>, <<189, 2>>,
    <<95, 1>>, <<98, 1>>, <<197, 2>>, <<99, 1>>, <<100, 1>> }

\* stored utilization percentages, as fractions (19/2 is 9.5)
UtilChoices ==
  { Absent, <<0, 1>>, <<9, 1>>, <<19, 2>>, <<10, 1>>, <<30, 1>>, <<61, 2>>,
    <<31, 1>>, <<50, 1>>, <<101, 2>>, <<51, 1>> }

LimitChoices == {Absent, <<0>>, <<1000>>}

BalanceChoices == {Absent, <<0>>, <<90>>, <<95>>, <<300>>, <<305>>, <<500>>, <<505>>}

AgeChoices == {Absent, <<0>>, <<23>>, <<24>>, <<83>>, <<84>>}

InquiryChoices == {Absent, <<0>>, <<3>>, <<4>>}

TotalAccountsChoices == {Absent, <<0>>, <<2>>, <<3>>}

AccountTypeChoices ==
  { Absent, <<<<>>>>, <<<<"revolving">>>>, <<<<"auto", "charge">>>>,
    <<<<"revolving", "revolving", "revolving">>>>, <<<<"revolving", "mortgage", "student">>>> }

\* a negative item with a dispute_reason
ItemWithReason(ty, name, disp, reason) ==
  [Item(ty, name, disp) EXCEPT !.dispute_reason = reason]

\* negative items of audited profiles
AuditItemChoices ==
  { ItemWithReason("late_payment", NameA, "true", <<"n">>),
    Item("late_payment", NameA, "absent"),
    Item("collection", NameA, "true"),
    Item("collection", NameB, "absent"),
    Item("collection", NameB, "false"),
    Item("chargeoff", NameB, "true"),
    ItemWithReason("inquiry", NameA, "absent", <<"n">>),
    Item("inquiry", NameB, "false"),
    Item("bankruptcy", NameA, "true"),
    ItemWithReason("other", NameB, "true", <<"n">>) }

RECURSIVE SeqsUpTo(_, _)
\* the lists of at most n elements of S
SeqsUpTo(S, n) ==
  IF n = 0 THEN {<<>>}
  ELSE LET shorter == SeqsUpTo(S, n - 1) IN
       shorter \cup {Append(q, x) : q \in shorter, x \in S}

\* the negative_items lists of audited profiles
ItemListChoices == SeqsUpTo(AuditItemChoices, MaxItems)

\* profiles under audit: each base profile with one group of fields set
AuditProfiles ==
  UNION { {[b EXCEPT !.current_score = x] : x \in ScoreChoices}
          \cup {[b EXCEPT !.on_time_payment_percent = x] : x \in OnTimeChoices}
          \cup {[b EXCEPT !.utilization_percent = x] : x \in UtilChoices}
          \cup {[b EXCEPT !.total_credit_limit = l, !.total_balance = x] :
                  l \in LimitChoices, x \in BalanceChoices}
          \cup {[b EXCEPT !.average_account_age_months = x] : x \in AgeChoices}
          \cup {[b EXCEPT !.hard_inquiries_last_12mo = x] : x \in InquiryChoices}
          \cup {[b EXCEPT !.account_types = x] : x \in AccountTypeChoices}
          \cup {[b EXCEPT !.total_accounts = x] : x \in TotalAccountsChoices}
          \cup {[b EXCEPT !.negative_items = x] : x \in ItemListChoices}
        : b \in ProfileChoices }

\* the partial profiles passed to updateProfile
UpdateChoices ==
  { [current_score |-> <<700>>],
    [negative_items |-> <<Item("inquiry", NameB, "absent")>>, utilization_percent |-> <<40, 1>>],
    [on_time_payment_percent |-> Absent, total_accounts |-> <<3>>] }

AuditInit ==
  /\ now = Instant(0, 0)
  /\ profiles \in {EmptyMap} \cup {MapSet(EmptyMap, Requester, p) : p \in AuditProfiles}
  /\ addresses = EmptyMap
  /\ memories = <<>>
  /\ lobCount = 0
  /\ inflight = {}
  /\ calls = <<>>
  /\ h = IdleH
  /\ result = NoResult
  /\ ret = NoCall
  /\ report = NoReport
  /\ updating = {}

\* a runAudit that stores the score it defaulted
RunAudit_Persisting(u) ==
  /\ ret' = [op |-> "runAudit", arg |-> <<u>>, value |-> runAudit(profiles, u)]
  /\ profiles' = IF getProfile(profiles, u).present
                 THEN MapSet(profiles, u, [getProfile(profiles, u) EXCEPT
                                             !.current_score = <<OrZero(@)>>])
                 ELSE profiles
  /\ UNCHANGED <<now, addresses, memories, lobCount, inflight, calls, h, result, report, updating>>

RunAudit(u) ==
  /\ ret' = [op |-> "runAudit", arg |-> <<u>>, value |-> runAudit(profiles, u)]
  /\ UNCHANGED <<now, profiles, addresses, memories, lobCount, inflight, calls, h, result, report, updating>>

UpdateProfile(u, updates) ==
  /\ profiles' = updateProfile(profiles, u, updates).store
  /\ ret' = [op |-> "updateProfile", arg |-> <<u, updates>>,
             value |-> updateProfile(profiles, u, updates).value]
  /\ UNCHANGED <<now, addresses, memories, lobCount, inflight, calls, h, result, report, updating>>

AuditNext ==
  \/ \E u \in Users : RunAudit(u)
  \/ \E u \in Users, updates \in UpdateChoices : UpdateProfile(u, updates)

AuditSpec == AuditInit /\ [][AuditNext]_vars

C15_Step ==
  ret'.op = "updateProfile" =>
    LET u       == ret'.arg[1]
        partial == ret'.arg[2]
    IN
    /\ u \notin DOMAIN profiles =>
         /\ ret'.value = NoProfile
         /\ profiles' = profiles
         /\ ~getProfile(profiles', u).present
    /\ u \in DOMAIN profiles =>
         /\ DOMAIN ret'.value = DOMAIN profiles[u] \cup DOMAIN partial
         /\ \A f \in DOMAIN partial : ret'.value[f] = partial[f]
         /\ \A f \in DOMAIN profiles[u] \ DOMAIN partial : ret'.value[f] = profiles[u][f]
         /\ getProfile(profiles', u) = ret'.value
         /\ \A v \in Users \ {u} : getProfile(profiles', v) = getProfile(profiles, v)

\* C15: updateProfile(u, partial) returns absent and creates no profile when
\* u has none; otherwise it stores and returns the shallow merge in which
\* every field present in partial takes partial's value (a nested list is
\* replaced wholesale), every other field keeps its previous value, and a
\* following getProfile(u) returns that merged profile.
C15_UpdateProfileMerge == [][C15_Step]_vars

\* C15 witness: an update replaced the list of negative items of a profile
\* that had two and kept its score, and an update for a user without a
\* profile is possible in the same state
C15_Witness ==
  /\ ret.op = "updateProfile"
  /\ ret.arg[1] = Requester
  /\ "negative_items" \in DOMAIN ret.arg[2]
  /\ ret.value.present
  /\ Len(ret.value.negative_items) = 1
  /\ ret.value.current_score = <<740>>
  /\ getProfile(profiles, Requester) = ret.value
  /\ OtherUser \notin DOMAIN profiles

\* a step in which runAudit returns
C16_Step ==
  ret'.op = "runAudit" =>
    /\ profiles' = profiles
    /\ memories' = memories
    /\ addresses' = addresses
    /\ \A u \in Users :
         /\ getProfile(profiles', u) = getProfile(profiles, u)
         /\ getDisputes(memories', u) = getDisputes(memories, u)
         /\ \A n \in RawNames :
              getCreditorAddress(addresses', u, n) = getCreditorAddress(addresses, u, n)
    /\ (ret.op = "runAudit" /\ ret.arg = ret'.arg) => ret'.value = ret.value
    /\ ret'.value = runAudit(profiles', ret'.arg[1])

HasFactor(entries, factor) == \E i \in DOMAIN entries : entries[i].factor = factor

\* an audit of a stored profile has just been returned
Audited == ret.op = "runAudit" /\ ret.value.present

\* C17: score_phase is elite iff s >= 740, optimization iff 670 <= s < 740,
\* acceleration iff 580 <= s < 670, and foundation iff s < 580 or s is
\* absent; 740, 670 and 580 belong to the higher phase.
C17_ScorePhase ==
  Audited =>
    LET s     == ret.value.profile.current_score
        phase == ret.value.score_phase
    IN
    /\ phase = "elite" <=> (s # Absent /\ s[1] >= 740)
    /\ phase = "optimization" <=> (s # Absent /\ 670 <= s[1] /\ s[1] < 740)
    /\ phase = "acceleration" <=> (s # Absent /\ 580 <= s[1] /\ s[1] < 670)
    /\ phase = "foundation" <=> (s = Absent \/ s[1] < 580)

\* C17 witness: audits at a boundary score and without a score
C17_Witness ==
  /\ Audited
  /\ ret.value.profile.current_score = <<670>>
  /\ ret.value.score_phase = "optimization"

\* the effective utilization the claims speak of, as a fraction num / den
\* with den > 0: the stored percentage, else balance / limit * 100
KnownUtil(profile) ==
  \/ profile.utilization_percent # Absent
  \/ (profile.total_credit_limit # Absent /\ profile.total_credit_limit[1] > 0)

UtilNum(profile) ==
  IF profile.utilization_percent # Absent THEN profile.utilization_percent[1]
  ELSE 100 * (IF profile.total_balance = Absent THEN 0 ELSE profile.total_balance[1])

UtilDen(profile) ==
  IF profile.utilization_percent # Absent THEN profile.utilization_percent[2]
  ELSE profile.total_credit_limit[1]

\* strength iff excellent, weakness iff fair or critical
C18_Signals ==
  LET a == ret.value IN
  /\ HasFactor(a.strengths, "utilization") <=> a.utilization_status = "excellent"
  /\ HasFactor(a.weaknesses, "utilization") <=> a.utilization_status \in {"fair", "critical"}

\* C18 (as claimed): excellent iff u <= 9, good iff 10 <= u <= 30, fair iff
\* 31 <= u <= 50, critical iff u > 50; a utilization strength is recorded
\* iff the status is excellent, a weakness iff it is fair or critical.
C18_Original ==
  (Audited /\ KnownUtil(ret.value.profile)) =>
    LET n  == UtilNum(ret.value.profile)
        d  == UtilDen(ret.value.profile)
        st == ret.value.utilization_status
    IN
    /\ st = "excellent" <=> n <= 9 * d
    /\ st = "good" <=> (10 * d <= n /\ n <= 30 * d)
    /\ st = "fair" <=> (31 * d <= n /\ n <= 50 * d)
    /\ st = "critical" <=> n > 50 * d
    /\ C18_Signals

\* C18 (amended): for every effective utilization percentage u, integer or
\* not: excellent iff u <= 9, good iff 9 < u <= 30, fair iff 30 < u <= 50,
\* critical iff u > 50; a utilization strength is recorded iff the status
\* is excellent, a weakness iff it is fair or critical.
C18_UtilizationStatus ==
  (Audited /\ KnownUtil(ret.value.profile)) =>
    LET n  == UtilNum(ret.value.profile)
        d  == UtilDen(ret.value.profile)
        st == ret.value.utilization_status
    IN
    /\ st = "excellent" <=> n <= 9 * d
    /\ st = "good" <=> (9 * d < n /\ n <= 30 * d)
    /\ st = "fair" <=> (30 * d < n /\ n <= 50 * d)
    /\ st = "critical" <=> n > 50 * d
    /\ C18_Signals

\* C18 witness: a utilization of 30.5%, derived from balance and limit, was
\* audited as fair with a weakness
C18_Witness ==
  /\ Audited
  /\ ret.value.profile.utilization_percent = Absent
  /\ ret.value.profile.total_balance = <<305>>
  /\ ret.value.profile.total_credit_limit = <<1000>>
  /\ ret.value.utilization_status = "fair"
  /\ HasFactor(ret.value.weaknesses, "utilization")

\* C19: a stored utilization_percent is used as is; when it is absent and
\* total_credit_limit > 0 the utilization is balance / limit * 100 with an
\* absent balance counted as 0; when it is absent and the limit is absent
\* or 0 the utilization is unknown: the status is 'excellent', no
\* utilization strength or weakness is recorded and no 'Reduce utilization'
\* action is recommended.
C19_EffectiveUtilization ==
  Audited =>
    LET p  == ret.value.profile
        a  == ret.value
        st == a.utilization_status
        Class(n, d) == IF n <= 9 * d THEN "excellent"
                       ELSE IF n <= 30 * d THEN "good"
                       ELSE IF n <= 50 * d THEN "fair" ELSE "critical"
    IN
    /\ p.utilization_percent # Absent =>
         st = Class(p.utilization_percent[1], p.utilization_percent[2])
    /\ (p.utilization_percent = Absent /\ p.total_credit_limit # Absent
          /\ p.total_credit_limit[1] > 0) =>
         st = Class(100 * (IF p.total_balance = Absent THEN 0 ELSE p.total_balance[1]),
                    p.total_credit_limit[1])
    /\ (p.utilization_percent = Absent
          /\ (p.total_credit_limit = Absent \/ p.total_credit_limit[1] = 0)) =>
         /\ st = "excellent"
         /\ ~HasFactor(a.strengths, "utilization")
         /\ ~HasFactor(a.weaknesses, "utilization")
         /\ \A i \in DOMAIN a.recommended_actions :
              a.recommended_actions[i].action # "Reduce utilization"

\* C19 witness: a profile with a balance but a zero limit was audited
C19_Witness ==
  /\ Audited
  /\ ret.value.profile.utilization_percent = Absent
  /\ ret.value.profile.total_credit_limit = <<0>>
  /\ ret.value.profile.total_balance = <<505>>
  /\ ret.value.utilization_status = "excellent"

\* C20: a payment_history strength iff on_time_payment_percent >= 99 and a
\* weakness iff it is < 95; an age strength iff average_account_age_months
\* >= 84 and a weakness iff it is < 24; an inquiries weakness iff
\* hard_inquiries_last_12mo > 3; an absent field gives no entry for its
\* factor, and no factor appears in both strengths and weaknesses.
C20_ThresholdSignals ==
  Audited =>
    LET p == ret.value.profile
        S == ret.value.strengths
        W == ret.value.weaknesses
        pay == p.on_time_payment_percent
        age == p.average_account_age_months
        inq == p.hard_inquiries_last_12mo
    IN
    /\ HasFactor(S, "payment_history") <=> (pay # Absent /\ pay[1] >= 99 * pay[2])
    /\ HasFactor(W, "payment_history") <=> (pay # Absent /\ pay[1] < 95 * pay[2])
    /\ HasFactor(S, "age") <=> (age # Absent /\ age[1] >= 84)
    /\ HasFactor(W, "age") <=> (age # Absent /\ age[1] < 24)
    /\ HasFactor(W, "inquiries") <=> (inq # Absent /\ inq[1] > 3)
    /\ ~HasFactor(S, "inquiries")
    /\ \A f \in {"payment_history", "utilization", "age", "mix", "inquiries"} :
         ~(HasFactor(S, f) /\ HasFactor(W, f))
    /\ \A f \in {"payment_history", "utilization", "age", "mix", "inquiries"} :
         /\ Cardinality({i \in DOMAIN S : S[i].factor = f}) <= 1
         /\ Cardinality({i \in DOMAIN W : W[i].factor = f}) <= 1

\* C20 witness: exactly three hard inquiries were audited without an
\* inquiries entry
C20_Witness ==
  /\ Audited
  /\ ret.value.profile.hard_inquiries_last_12mo = <<3>>
  /\ ~HasFactor(ret.value.weaknesses, "inquiries")
  /\ ret.value.profile.on_time_payment_percent = Absent
  /\ ~HasFactor(ret.value.weaknesses, "payment_history")

\* the on-time percentage the status is computed from, as a fraction
PayPct == OrZeroPct(ret.value.profile.on_time_payment_percent)

\* an absent percentage gives poor and no payment_history weakness
C21_AbsentPoor ==
  ret.value.profile.on_time_payment_percent = Absent =>
    /\ ret.value.payment_history_status = "poor"
    /\ ~HasFactor(ret.value.weaknesses, "payment_history")
    /\ ~HasFactor(ret.value.strengths, "payment_history")

\* C21 (as claimed): payment_history_status is perfect iff p >= 99, good iff
\* 95 <= p <= 98, needs_work iff 85 <= p <= 94, poor iff p < 85; an absent
\* percentage is treated as 0 and gives poor, with no payment_history
\* weakness.
C21_Original ==
  Audited =>
    LET n  == PayPct[1]
        d  == PayPct[2]
        st == ret.value.payment_history_status
    IN
    /\ st = "perfect" <=> n >= 99 * d
    /\ st = "good" <=> (95 * d <= n /\ n <= 98 * d)
    /\ st = "needs_work" <=> (85 * d <= n /\ n <= 94 * d)
    /\ st = "poor" <=> n < 85 * d
    /\ C21_AbsentPoor

\* C21 (amended): for every on-time percentage p, integer or not, with an
\* absent one counted as 0: payment_history_status is perfect iff p >= 99,
\* good iff 95 <= p < 99, needs_work iff 85 <= p < 95, poor iff p < 85; an
\* absent percentage gives poor and records no payment_history strength or
\* weakness.
C21_PaymentStatus ==
  Audited =>
    LET n  == PayPct[1]
        d  == PayPct[2]
        st == ret.value.payment_history_status
    IN
    /\ st = "perfect" <=> n >= 99 * d
    /\ st = "good" <=> (95 * d <= n /\ n < 99 * d)
    /\ st = "needs_work" <=> (85 * d <= n /\ n < 95 * d)
    /\ st = "poor" <=> n < 85 * d
    /\ C21_AbsentPoor

\* C21 witness: an on-time percentage of 98.5 was audited as good
C21_Witness ==
  /\ Audited
  /\ ret.value.profile.on_time_payment_percent = <<197, 2>>
  /\ ret.value.payment_history_status = "good"
  /\ ~HasFactor(ret.value.strengths, "payment_history")

\* the element occurs in the list
InList(x, list) == \E i \in DOMAIN list : list[i] = x

\* C22: missing_account_types contains 'revolving' iff no entry of
\* account_types (absent counting as empty, repeated tags allowed) is
\* revolving, and 'installment' iff no entry is one of installment, auto,
\* student, personal, mortgage; a mix weakness is recorded iff the number
\* of distinct account types in the list is less than 3.
C22_CreditMix ==
  Audited =>
    LET t       == ret.value.profile.account_types
        types   == IF t = Absent THEN <<>> ELSE t[1]
        missing == ret.value.missing_account_types
    IN
    /\ InList("revolving", missing) <=> ~InList("revolving", types)
    /\ InList("installment", missing) <=>
         ~\E x \in {"installment", "auto", "student", "personal", "mortgage"} : InList(x, types)
    /\ HasFactor(ret.value.weaknesses, "mix") <=>
         Cardinality({types[i] : i \in DOMAIN types}) < 3

\* the row of the claimed table for an item: <<gain, probability in
\* hundredths, letter type>>
C23_Row(item) ==
  IF item.type = "late_payment"
  THEN (IF item.dispute_reason # <<>> THEN <<30, 65, "basic_bureau">>
        ELSE <<30, 35, "goodwill">>)
  ELSE IF item.type = "collection" THEN <<45, 55, "debt_validation">>
  ELSE IF item.type = "chargeoff" THEN <<40, 40, "chargeoff_removal">>
  ELSE IF item.type = "inquiry" THEN <<8, 70, "unauthorized_inquiry">>
  ELSE <<20, 50, "basic_bureau">>

\* C23: the dispute candidate of a negative item follows the table on its
\* type and on the presence of dispute_reason (late_payment 30 / 0.65 /
\* basic_bureau with a reason, else 0.35 / goodwill; collection 45 / 0.55 /
\* debt_validation; chargeoff 40 / 0.40 / chargeoff_removal; inquiry 8 /
\* 0.70 / unauthorized_inquiry; any other type 20 / 0.50 / basic_bureau);
\* priority_score is gain x probability rounded to one decimal place, and
\* every candidate carries the same six-step escalation_path.
C23_DisputeCandidate ==
  Audited =>
    \A i \in DOMAIN ret.value.disputable_items :
      LET c   == ret.value.disputable_items[i]
          row == C23_Row(c.item)
          gp  == c.estimated_score_gain * c.success_probability
      IN
      /\ c.estimated_score_gain = row[1]
      /\ c.success_probability = row[2]
      /\ c.recommended_letter_type = row[3]
      /\ gp - 5 < 10 * c.priority_score
      /\ 10 * c.priority_score <= gp + 5
      /\ Len(c.escalation_path) = 6
      /\ c.escalation_path = <<"Basic Bureau Dispute", "609 Verification",
                               "611 Reinvestigation", "CFPB Complaint",
                               "Intent to Sue", "FCRA Attorney">>

\* C23 witness: a collection (45 x 0.55 = 24.75, scored 24.8) and a late
\* payment with a reason were assessed in one audit
C23_Witness ==
  /\ Audited
  /\ Len(ret.value.disputable_items) = 2
  /\ ret.value.disputable_items[1].item.type = "collection"
  /\ ret.value.disputable_items[1].priority_score = 248
  /\ ret.value.disputable_items[2].item.type = "late_payment"
  /\ ret.value.disputable_items[2].item.dispute_reason # <<>>
  /\ ret.value.disputable_items[2].recommended_letter_type = "basic_bureau"

\* the positions of the negative items that are not flagged false
C24_Kept(items) == {i \in DOMAIN items : items[i].disputable # "false"}

\* C24: disputable_items holds exactly one candidate for each negative item
\* whose disputable flag is not false and none for an item flagged false;
\* adjacent candidates have non-increasing priority_score, and candidates
\* of equal priority_score keep the order of their items in negative_items.
C24_DisputableItems ==
  Audited =>
    LET items == ret.value.profile.negative_items
        cands == ret.value.disputable_items
        kept  == C24_Kept(items)
    IN
    /\ Len(cands) = Cardinality(kept)
    /\ \A j \in DOMAIN cands : cands[j].item.disputable # "false"
    /\ \E pos \in [DOMAIN cands -> kept] :
         /\ \A j, k \in DOMAIN cands : j # k => pos[j] # pos[k]
         /\ \A j \in DOMAIN cands : cands[j].item = items[pos[j]]
         /\ \A j, k \in DOMAIN cands :
              (j < k /\ cands[j].priority_score = cands[k].priority_score) => pos[j] < pos[k]
    /\ \A j \in DOMAIN cands :
         j < Len(cands) => cands[j].priority_score >= cands[j + 1].priority_score

\* C24 witness: an inquiry (5.6) listed before a collection (24.8) was
\* audited, and the collection ranks first
C24_Witness ==
  /\ Audited
  /\ Len(ret.value.profile.negative_items) = 2
  /\ ret.value.profile.negative_items[1].type = "inquiry"
  /\ ret.value.profile.negative_items[2].type = "collection"
  /\ Len(ret.value.disputable_items) = 2
  /\ ret.value.disputable_items[1].item.type = "collection"
  /\ ret.value.disputable_items[1].priority_score = 248
  /\ ret.value.disputable_items[2].priority_score = 56

\* the actions in the order generateRecommendations is claimed to produce
\* them, and their claimed priorities
C25_Generation ==
  << "Reduce utilization", "Dispute negative items", "Open secured credit card",
     "Open credit builder loan", "Become authorized user", "Diversify credit mix",
     "Request credit limit increases", "Enable Experian Boost" >>

C25_Priority == <<1, 2, 3, 4, 2, 5, 3, 4>>

C25_Index(name) == CHOOSE i \in DOMAIN C25_Generation : C25_Generation[i] = name

\* the claimed rule of an action, on the audit that was returned
C25_Fires(name, a) ==
  LET foundation == a.score_phase = "foundation"
      accounts   == IF a.profile.total_accounts = Absent THEN 0
                    ELSE a.profile.total_accounts[1]
  IN
  CASE name = "Reduce utilization" -> a.utilization_status \in {"fair", "critical"}
    [] name = "Dispute negative items" -> Len(a.profile.negative_items) > 0
    [] name \in {"Open secured credit card", "Open credit builder loan",
                 "Become authorized user"} -> foundation /\ accounts < 3
    [] name = "Diversify credit mix" -> Len(a.missing_account_types) > 0
    [] name = "Request credit limit increases" -> ~foundation
    [] name = "Enable Experian Boost" -> TRUE

\* C25: recommended_actions is exactly the list of the actions whose rule
\* fires (Reduce utilization iff fair or critical, with impact 50 if
\* critical else 25; Dispute negative items iff negative_items is
\* non-empty; the three opening actions iff foundation and total_accounts <
\* 3; Diversify credit mix iff a type is missing; Request credit limit
\* increases iff not foundation; Enable Experian Boost always), each with
\* its priority, sorted ascending by priority with equal priorities in
\* generation order.
C25_RecommendedActions ==
  Audited =>
    LET a    == ret.value
        acts == a.recommended_actions
    IN
    /\ \A i \in DOMAIN acts : acts[i].action \in {C25_Generation[g] : g \in DOMAIN C25_Generation}
    /\ \A g \in DOMAIN C25_Generation :
         Cardinality({i \in DOMAIN acts : acts[i].action = C25_Generation[g]})
           = IF C25_Fires(C25_Generation[g], a) THEN 1 ELSE 0
    /\ \A i \in DOMAIN acts :
         /\ acts[i].priority = C25_Priority[C25_Index(acts[i].action)]
         /\ acts[i].action = "Reduce utilization" =>
              acts[i].estimated_score_impact =
                (IF a.utilization_status = "critical" THEN 50 ELSE 25)
    /\ \A i \in DOMAIN acts :
         i < Len(acts) =>
           /\ acts[i].priority <= acts[i + 1].priority
           /\ acts[i].priority = acts[i + 1].priority =>
                C25_Index(acts[i].action) < C25_Index(acts[i + 1].action)

\* C25 witness: a foundation profile with a fair utilization, a negative
\* item and no accounts was audited: seven actions, 'Become authorized
\* user' (generated fifth) placed third
C25_Witness ==
  /\ Audited
  /\ ret.value.score_phase = "foundation"
  /\ ret.value.utilization_status = "fair"
  /\ Len(ret.value.recommended_actions) = 7
  /\ ret.value.recommended_actions[1].action = "Reduce utilization"
  /\ ret.value.recommended_actions[2].action = "Dispute negative items"
  /\ ret.value.recommended_actions[3].action = "Become authorized user"
  /\ ret.value.recommended_actions[4].action = "Open secured credit card"
  /\ ret.value.recommended_actions[6].action = "Enable Experian Boost"
  /\ ret.value.recommended_actions[7].action = "Diversify credit mix"

\* C26: whenever a SEND_DISPUTE invocation returns, with success or with
\* failure, every letter the carrier accepted during that invocation has a
\* DisputeRecord in the user's dispute history, on the single-bureau, the
\* all-bureaus and the creditor/collector path.
C26_MailedImpliesTracked ==
  (h.pc = "done" /\ h.path \in {"single", "all", "creditor"}) =>
    \A n \in AcceptedLetters :
      \E d \in Range(getDisputes(memories, h.user)) : d.lob_letter_id = <<"ltr", n>>

\* ------------------------------------------------------------------------
\* Dispute report (CHECK_DISPUTES, credit-context provider): the pending
\* and the overdue list come from two queries, each reading the clock
\* ------------------------------------------------------------------------

\* a report is requested; its first query: getPendingDisputes reads the
\* clock and the table
ReportPending(u) ==
  /\ report.pc \in {"idle", "done"}
  /\ report' = [ pc |-> "pending", user |-> u,
                 pending |-> getPendingDisputes(memories, u, now),
                 overdue |-> <<>>, all |-> <<>> ]
  /\ UNCHANGED <<now, profiles, addresses, memories, lobCount, inflight, calls, h, result,
                 ret, updating>>

\* the second query: getOverdueDisputes reads the clock again; the report
\* also lists all disputes
ReportOverdue ==
  /\ report.pc = "pending"
  /\ report' = [report EXCEPT !.pc = "done",
                              !.overdue = getOverdueDisputes(memories, report.user, now),
                              !.all = getDisputes(memories, report.user)]
  /\ UNCHANGED <<now, profiles, addresses, memories, lobCount, inflight, calls, h, result,
                 ret, updating>>

\* disputes are recorded between reports; time passes at any point
ReportNext ==
  \/ \E d \in DisputeChoices : report.pc # "pending" /\ AddDispute(Requester, d)
  \/ \E j \in Jumps : Tick(j)
  \/ ReportPending(Requester)
  \/ ReportOverdue

ReportSpec == Init /\ [][ReportNext]_vars

\* C27: within one report no dispute record is counted in both the pending
\* and the overdue list, and none with status sent or delivered and a
\* deadline is counted in neither, even when the clock passes a record's
\* response_deadline between the two queries.
C27_ReportPartition ==
  report.pc = "done" =>
    /\ \A i \in DOMAIN report.pending, j \in DOMAIN report.overdue :
         report.pending[i] # report.overdue[j]
    /\ \A k \in DOMAIN report.all :
         (IsOpenStatus(report.all[k].status)
            /\ ParseDate(report.all[k].response_deadline).valid) =>
           \/ \E i \in DOMAIN report.pending : report.pending[i] = report.all[k]
           \/ \E j \in DOMAIN report.overdue : report.overdue[j] = report.all[k]

\* C28: at any single instant every record returned by getDisputes whose
\* status is sent or delivered is returned by exactly one of
\* getPendingDisputes and getOverdueDisputes, whether its
\* response_deadline is a valid date, missing or not a date.
C28_ExhaustivePartition ==
  \A u \in Users :
    LET all     == getDisputes(memories, u)
        pending == Range(getPendingDisputes(memories, u, now))
        overdue == Range(getOverdueDisputes(memories, u, now))
    IN
    \A k \in DOMAIN all :
      all[k].status \in {"sent", "delivered"} =>
        /\ all[k] \in pending \cup overdue
        /\ all[k] \notin pending \cap overdue

\* C29: every letter SEND_DISPUTE hands to the carrier, on the bureau paths
\* and on the creditor/collector path, lists at least one item and only
\* items whose disputable flag is not false, and so does the
\* items_disputed of the resulting record.
C29_OnlyDisputableItemsMailed ==
  /\ h.pc = "sending" =>
       /\ Len(h.items) > 0
       /\ \A i \in DOMAIN h.items : h.items[i].disputable # "false"
  /\ \A k \in DOMAIN result.records :
       /\ Len(result.records[k].items_disputed) > 0
       /\ \A i \in DOMAIN result.records[k].items_disputed :
            result.records[k].items_disputed[i].disputable # "false"

\* ------------------------------------------------------------------------
\* Overlapping updateProfile calls: a call is suspended at the await
\* between its getProfile and its saveProfile
\* ------------------------------------------------------------------------

\* largest number of updateProfile calls in progress together
MaxCalls == 2

\* a call in progress: the profile it read, and the calls that had read but
\* not yet written when it read
UpdateCall(u, updates, existing, seen) ==
  [user |-> u, updates |-> updates, existing |-> existing, seen |-> seen, done |-> FALSE]

\* updateProfile up to the await of saveProfile: the profile is read; a call
\* for a user without a profile returns undefined at once
UpdateBegin(u, updates) ==
  LET existing == getProfile(profiles, u) IN
  /\ h.pc = "idle"
  /\ Cardinality(updating) < MaxCalls
  /\ \A c \in updating : c.user # u \/ c.updates # updates
  /\ IF ~existing.present
     THEN /\ ret' = [op |-> "updateProfile", arg |-> <<u, updates>>, value |-> NoProfile]
          /\ UNCHANGED updating
     ELSE /\ updating' = updating \cup
                           {UpdateCall(u, updates, existing,
                                       {c.updates : c \in {x \in updating : ~x.done}})}
          /\ UNCHANGED ret
  /\ UNCHANGED <<now, profiles, addresses, memories, lobCount, inflight, calls, h, result,
                 report>>

\* the rest of updateProfile: the merge of what was read is saved and
\* returned
UpdateEnd(c) ==
  LET updated == Spread(c.existing, c.updates) IN
  /\ ~c.done
  /\ profiles' = MapSet(profiles, c.user, updated)
  /\ updating' = (updating \ {c}) \cup {[c EXCEPT !.done = TRUE]}
  /\ ret' = [op |-> "updateProfile", arg |-> <<c.user, c.updates>>, value |-> updated]
  /\ UNCHANGED <<now, addresses, memories, lobCount, inflight, calls, h, result, report>>

\* the callers have taken the results of the finished calls
UpdateReturn ==
  /\ updating # {}
  /\ \A c \in updating : c.done
  /\ updating' = {}
  /\ UNCHANGED <<now, profiles, addresses, memories, lobCount, inflight, calls, h, result,
                 ret, report>>

UpdateNext ==
  \/ \E p \in ProfileChoices : updating = {} /\ SaveProfile(Requester, p)
  \/ \E u \in Users, updates \in UpdateChoices : UpdateBegin(u, updates)
  \/ \E c \in updating : UpdateEnd(c)
  \/ UpdateReturn

UpdateSpec == Init /\ [][UpdateNext]_vars

\* two calls overlapped: one read while the other had read and not written
Overlapped(c, d) == c.updates \in d.seen \/ d.updates \in c.seen

\* C30: when two updateProfile calls for the same user, changing disjoint
\* fields, overlap in time, the profile finally stored contains both
\* changes.
C30_NoLostUpdate ==
  \A c, d \in updating :
    ( /\ c # d
      /\ c.done /\ d.done
      /\ c.user = d.user
      /\ DOMAIN c.updates \cap DOMAIN d.updates = {}
      /\ Overlapped(c, d) ) =>
      LET stored == getProfile(profiles, c.user) IN
      /\ \A f \in DOMAIN c.updates : stored[f] = c.updates[f]
      /\ \A f \in DOMAIN d.updates : stored[f] = d.updates[f]

====
